---- MODULE Spec2Model ----
(***************************************************************************)
(* Wire codec of pchain-types (crate protocol_types): the fixed-offset     *)
(* entity layouts, the generic Option / tuple / Vec composition layer and  *)
(* the two-worker Block pipeline.                                          *)
(*                                                                         *)
(* A byte buffer is a sequence of integers 0..255; the Rust slice          *)
(* buf[a..b] (0-based, half open) is Slice(buf, a, b).  A decoder returns  *)
(* Ok(v), Err(kind) or Panic: an out-of-range slice index and a            *)
(* copy_from_slice between slices of different lengths panic in Rust.      *)
(***************************************************************************)
EXTENDS Integers, Sequences, FiniteSets, TLC

\* ------------------------------------------------------------------ bounds
\* longest variable-length byte field (data, topic, value, return_value, ...)
MaxLen == 2
\* most events in one Receipt
MaxEvents == 2
\* most transactions in one Block
MaxTxs == 2
\* most receipts in one Block
MaxReceipts == 2
\* most leaf indices / leaf hashes / items / proof blobs in one proof
MaxLeaves == 2
\* most Block encode calls on one value
MaxCalls == 2
\* how far into a generic encoding a received byte may differ from the sent one
CorruptSpan == 24
\* largest integer the model holds exactly: a decoded integer of MaxInt or more
\* is held as MaxInt.  No buffer of the model is that long, so comparing a
\* decoded size with a buffer length has the outcome it has in the program.
MaxInt == 16777216

\* ------------------------------------------------------- results and errors
\* error.rs: ErrorKind
ErrorKind == {"IncorrectLength", "ReceiptStatusCodeOutOfRange", "StringParseError"}

Ok(v) == [tag |-> "Ok", val |-> v]
Err(k) == [tag |-> "Err", kind |-> k]
\* a Rust panic (index out of range, copy_from_slice length mismatch, unwrap)
Panic == [tag |-> "Panic"]

IsOk(r) == r.tag = "Ok"
IsErr(r, k) == r.tag = "Err" /\ r.kind = k

\* ------------------------------------------------------------ primitives
\* `let x = v;` followed by f(x): v is evaluated once, f sees its value
let(v, f(_)) == CHOOSE r \in {f(x) : x \in {v}} : TRUE

\* vec![0u8; n]
Zeros(n) == [i \in 1..n |-> 0]

\* buf[a..b]
Slice(buf, a, b) == SubSeq(buf, a + 1, b)

\* buf[a..]
SliceFrom(buf, a) == SubSeq(buf, a + 1, Len(buf))

RECURSIVE to_le_bytes(_, _)
\* uN::to_le_bytes for an n-byte integer; on a wider value it keeps the low
\* n bytes, which is what the cast `as u32` followed by to_le_bytes writes
to_le_bytes(v, n) ==
    IF n = 0 THEN <<>> ELSE <<v % 256>> \o to_le_bytes(v \div 256, n - 1)

\* lo + 256 * hi, held as MaxInt when it is MaxInt or more
shift_in(hi, lo) ==
    let(hi, LAMBDA h : IF h > MaxInt \div 256 THEN MaxInt
                       ELSE IF lo + 256 * h > MaxInt THEN MaxInt
                       ELSE lo + 256 * h)

RECURSIVE from_le_bytes(_)
\* uN::from_le_bytes
from_le_bytes(bs) ==
    IF bs = <<>> THEN 0 ELSE shift_in(from_le_bytes(Tail(bs)), bs[1])

\* serialize!: ret[fmt.1 .. fmt.1 + fmt.0].copy_from_slice(val)
serialize(ret, fmt, val) ==
    [i \in 1..Len(ret) |->
        IF fmt[2] < i /\ i <= fmt[2] + fmt[1] THEN val[i - fmt[2]] ELSE ret[i]]

\* ret[pos .. pos + len(val)].copy_from_slice(val)
copy_at(ret, pos, val) == serialize(ret, <<Len(val), pos>>, val)

\* deserialize_32bytes! / deserialize_64bytes!
deserialize_32bytes(buf, fmt) == Slice(buf, fmt[2], fmt[2] + fmt[1])

deserialize_64bytes(buf, fmt) == Slice(buf, fmt[2], fmt[2] + fmt[1])

\* deserialize_u64!
deserialize_u64(buf, fmt) == from_le_bytes(Slice(buf, fmt[2], fmt[2] + fmt[1]))

\* deserialize_u32!
deserialize_u32(buf, fmt) == from_le_bytes(Slice(buf, fmt[2], fmt[2] + fmt[1]))

\* ---------------------------------------------------------------- formats
\* a format table maps a field name to (size, offset)
RECURSIVE SumSizes(_, _)
SumSizes(fmt, names) ==
    IF names = {} THEN 0
    ELSE LET n == CHOOSE x \in names : TRUE
         IN  fmt[n][1] + SumSizes(fmt, names \ {n})

\* define_format!: $out_size = $($fm.0 +)* 0
define_format_BASESIZE(fmt) == SumSizes(fmt, DOMAIN fmt)

fmt_blockheader ==
    [ID |-> <<8, 0>>, VERSION |-> <<8, 8>>, TIMESTAMP |-> <<4, 16>>,
     PREVHASH |-> <<32, 20>>, BLOCKHASH |-> <<32, 52>>, STATEHASH |-> <<32, 84>>,
     TXSHASH |-> <<32, 116>>, RECEIPTHASH |-> <<32, 148>>, PUBKEY |-> <<32, 180>>,
     SIGNATURE |-> <<64, 212>>]

fmt_sizes == [TRANSACTION |-> <<4, 0>>, RECEIPT |-> <<4, 4>>]

fmt_transaction ==
    [FROMADDRESS |-> <<32, 0>>, TOADDRESS |-> <<32, 32>>, VALUE |-> <<8, 64>>,
     TIP |-> <<8, 72>>, GASLIMIT |-> <<8, 80>>, GASPRICE |-> <<8, 88>>,
     NUMTX |-> <<8, 96>>, HASH |-> <<32, 104>>, SIGNATURE |-> <<64, 136>>,
     DATASIZE |-> <<4, 200>>]

fmt_transactiondata_contractdeployment == [CODESIZE |-> <<4, 0>>, ARGSSIZE |-> <<4, 4>>]

fmt_event == [TOPICSIZE |-> <<4, 0>>, VALUESIZE |-> <<4, 4>>]

\* a receipt table with a one-byte gap before EVENTSSIZE
fmt_receipt_gap ==
    [STATUSCODE |-> <<1, 0>>, GASCONSUMED |-> <<8, 1>>, RETURNVALSIZE |-> <<4, 9>>,
     EVENTSSIZE |-> <<4, 14>>]

fmt_receipt ==
    [STATUSCODE |-> <<1, 0>>, GASCONSUMED |-> <<8, 1>>, RETURNVALSIZE |-> <<4, 9>>,
     EVENTSSIZE |-> <<4, 13>>]

fmt_merkleproof ==
    [ROOTHASH |-> <<32, 0>>, TOTALLEAVES |-> <<4, 32>>, LEAFINDSIZE |-> <<4, 36>>,
     LEAFHASHSIZE |-> <<4, 40>>, PROOFSIZE |-> <<4, 44>>]

fmt_paramsfromtransaction ==
    [FROMADDRESS |-> <<32, 0>>, TOADDRESS |-> <<32, 32>>, VALUE |-> <<8, 64>>,
     HASH |-> <<32, 72>>, DATASIZE |-> <<4, 104>>]

fmt_paramsfromblockchain ==
    [BLOCKNUM |-> <<8, 0>>, PREVHASH |-> <<32, 8>>, TIMESTAMP |-> <<4, 40>>,
     RANDOMBYTES |-> <<32, 44>>]

fmt_calldata == [METHOD_SIZE |-> <<4, 0>>, ARGS_SIZE |-> <<4, 4>>]

fmt_blockheader_BASESIZE == define_format_BASESIZE(fmt_blockheader)
fmt_sizes_BASESIZE == define_format_BASESIZE(fmt_sizes)
fmt_transaction_BASESIZE == define_format_BASESIZE(fmt_transaction)
fmt_transactiondata_contractdeployment_BASESIZE ==
    define_format_BASESIZE(fmt_transactiondata_contractdeployment)
fmt_event_BASESIZE == define_format_BASESIZE(fmt_event)
fmt_receipt_BASESIZE == define_format_BASESIZE(fmt_receipt)
fmt_merkleproof_BASESIZE == define_format_BASESIZE(fmt_merkleproof)
fmt_paramsfromtransaction_BASESIZE == define_format_BASESIZE(fmt_paramsfromtransaction)
fmt_paramsfromblockchain_BASESIZE == define_format_BASESIZE(fmt_paramsfromblockchain)
fmt_calldata_BASESIZE == define_format_BASESIZE(fmt_calldata)

\* size_of::<u32>()
SizeOfU32 == 4

\* ----------------------------------------------------- receipt status codes
ReceiptStatusCodes ==
    {"Success", "WrongNonce", "NotEnoughBalanceForGasLimit",
     "NotEnoughBalanceForTransfer", "PreExecutionGasExhausted", "DisallowedOpcode",
     "CannotCompile", "NoExportedContractMethod", "OtherDeployError",
     "ExecutionProperGasExhausted", "RuntimeError",
     "InternalExecutionProperGasExhaustion", "InternalRuntimeError",
     "InternalNotEnoughBalanceForTransfer", "Else"}

\* impl Into<u8> for ReceiptStatusCode
ReceiptStatusCode_into(code) ==
    CASE code = "Success" -> 0
      [] code = "WrongNonce" -> 10
      [] code = "NotEnoughBalanceForGasLimit" -> 11
      [] code = "NotEnoughBalanceForTransfer" -> 12
      [] code = "PreExecutionGasExhausted" -> 13
      [] code = "DisallowedOpcode" -> 20
      [] code = "CannotCompile" -> 21
      [] code = "NoExportedContractMethod" -> 22
      [] code = "OtherDeployError" -> 23
      [] code = "ExecutionProperGasExhausted" -> 30
      [] code = "RuntimeError" -> 31
      [] code = "InternalExecutionProperGasExhaustion" -> 40
      [] code = "InternalRuntimeError" -> 41
      [] code = "InternalNotEnoughBalanceForTransfer" -> 42
      [] code = "Else" -> 50

\* try_from with a catch-all arm that falls back to the last variant
ReceiptStatusCode_try_from_default(value) ==
    CASE value = 0 -> Ok("Success")
      [] value = 10 -> Ok("WrongNonce")
      [] value = 11 -> Ok("NotEnoughBalanceForGasLimit")
      [] value = 12 -> Ok("NotEnoughBalanceForTransfer")
      [] value = 13 -> Ok("PreExecutionGasExhausted")
      [] value = 20 -> Ok("DisallowedOpcode")
      [] value = 21 -> Ok("CannotCompile")
      [] value = 22 -> Ok("NoExportedContractMethod")
      [] value = 23 -> Ok("OtherDeployError")
      [] value = 30 -> Ok("ExecutionProperGasExhausted")
      [] value = 31 -> Ok("RuntimeError")
      [] value = 40 -> Ok("InternalExecutionProperGasExhaustion")
      [] value = 41 -> Ok("InternalRuntimeError")
      [] value = 42 -> Ok("InternalNotEnoughBalanceForTransfer")
      [] OTHER -> Ok("Else")

\* impl TryFrom<u8> for ReceiptStatusCode
ReceiptStatusCode_try_from(value) ==
    CASE value = 0 -> Ok("Success")
      [] value = 10 -> Ok("WrongNonce")
      [] value = 11 -> Ok("NotEnoughBalanceForGasLimit")
      [] value = 12 -> Ok("NotEnoughBalanceForTransfer")
      [] value = 13 -> Ok("PreExecutionGasExhausted")
      [] value = 20 -> Ok("DisallowedOpcode")
      [] value = 21 -> Ok("CannotCompile")
      [] value = 22 -> Ok("NoExportedContractMethod")
      [] value = 23 -> Ok("OtherDeployError")
      [] value = 30 -> Ok("ExecutionProperGasExhausted")
      [] value = 31 -> Ok("RuntimeError")
      [] value = 40 -> Ok("InternalExecutionProperGasExhaustion")
      [] value = 41 -> Ok("InternalRuntimeError")
      [] value = 42 -> Ok("InternalNotEnoughBalanceForTransfer")
      [] value = 50 -> Ok("Else")
      [] OTHER -> Err("ReceiptStatusCodeOutOfRange")

\* ------------------------------------------------------------- Transaction
\* Transaction::size_of
Transaction_size_of(msg) == Len(msg.data) + fmt_transaction_BASESIZE

\* size_from_slice that reports the fixed region only
Transaction_size_from_slice_base_only(buf) ==
    IF Len(buf) < fmt_transaction_BASESIZE THEN Err("IncorrectLength")
    ELSE Ok(fmt_transaction_BASESIZE)

\* Transaction::size_from_slice
Transaction_size_from_slice(buf) ==
    IF Len(buf) < fmt_transaction_BASESIZE THEN Err("IncorrectLength")
    ELSE Ok(fmt_transaction_BASESIZE + deserialize_u32(buf, fmt_transaction.DATASIZE))

\* Transaction::serialize_to_slice: the contents of ret after the call (the
\* call returns Transaction_size_of(msg))
Transaction_serialize_to_slice(msg, ret) ==
    LET r1 == serialize(ret, fmt_transaction.FROMADDRESS, msg.from_address)
        r2 == serialize(r1, fmt_transaction.TOADDRESS, msg.to_address)
        r3 == serialize(r2, fmt_transaction.VALUE, to_le_bytes(msg.value, 8))
        r4 == serialize(r3, fmt_transaction.TIP, to_le_bytes(msg.tip, 8))
        r5 == serialize(r4, fmt_transaction.GASLIMIT, to_le_bytes(msg.gas_limit, 8))
        r6 == serialize(r5, fmt_transaction.GASPRICE, to_le_bytes(msg.gas_price, 8))
        r7 == serialize(r6, fmt_transaction.NUMTX,
                        to_le_bytes(msg.n_txs_on_chain_from_address, 8))
        r8 == serialize(r7, fmt_transaction.HASH, msg.hash)
        r9 == serialize(r8, fmt_transaction.SIGNATURE, msg.signature)
        r10 == serialize(r9, fmt_transaction.DATASIZE, to_le_bytes(Len(msg.data), 4))
    IN  copy_at(r10, fmt_transaction_BASESIZE, msg.data)

\* impl Serializable for Transaction
Transaction_serialize(msg) ==
    Transaction_serialize_to_slice(msg, Zeros(Transaction_size_of(msg)))

\* impl Deserializable for Transaction
Transaction_deserialize(buf) ==
    IF Len(buf) < fmt_transaction_BASESIZE THEN Err("IncorrectLength")
    ELSE LET data_size == deserialize_u32(buf, fmt_transaction.DATASIZE) IN
         IF Len(buf) < fmt_transaction_BASESIZE + data_size THEN Err("IncorrectLength")
         \* data.copy_from_slice(&buf[BASESIZE..]): both sides must be equally long
         ELSE IF Len(SliceFrom(buf, fmt_transaction_BASESIZE)) # data_size THEN Panic
         ELSE Ok([from_address |-> deserialize_32bytes(buf, fmt_transaction.FROMADDRESS),
                  to_address |-> deserialize_32bytes(buf, fmt_transaction.TOADDRESS),
                  value |-> deserialize_u64(buf, fmt_transaction.VALUE),
                  tip |-> deserialize_u64(buf, fmt_transaction.TIP),
                  gas_limit |-> deserialize_u64(buf, fmt_transaction.GASLIMIT),
                  gas_price |-> deserialize_u64(buf, fmt_transaction.GASPRICE),
                  data |-> SliceFrom(buf, fmt_transaction_BASESIZE),
                  n_txs_on_chain_from_address |->
                      deserialize_u64(buf, fmt_transaction.NUMTX),
                  hash |-> deserialize_32bytes(buf, fmt_transaction.HASH),
                  signature |-> deserialize_64bytes(buf, fmt_transaction.SIGNATURE)])

\* ------------------------------------- TransactionDataContractDeployment
\* impl Serializable for TransactionDataContractDeployment
TransactionDataContractDeployment_serialize(msg) ==
    LET contract_code_size == Len(msg.contract_code)
        init_args_size == Len(msg.contract_init_arguments)
        ret == Zeros(fmt_transactiondata_contractdeployment_BASESIZE
                     + contract_code_size + init_args_size)
        r1 == serialize(ret, fmt_transactiondata_contractdeployment.CODESIZE,
                        to_le_bytes(contract_code_size, 4))
        r2 == serialize(r1, fmt_transactiondata_contractdeployment.ARGSSIZE,
                        to_le_bytes(init_args_size, 4))
        pos == fmt_transactiondata_contractdeployment_BASESIZE
        r3 == copy_at(r2, pos, msg.contract_code)
    IN  copy_at(r3, pos + contract_code_size, msg.contract_init_arguments)

\* impl Deserializable for TransactionDataContractDeployment (the variable
\* part is read from fmt_event::BASESIZE on, as in the source)
TransactionDataContractDeployment_deserialize(buf) ==
    IF Len(buf) < fmt_transactiondata_contractdeployment_BASESIZE
    THEN Err("IncorrectLength")
    ELSE LET code_size ==
                 deserialize_u32(buf, fmt_transactiondata_contractdeployment.CODESIZE)
             args_size ==
                 deserialize_u32(buf, fmt_transactiondata_contractdeployment.ARGSSIZE)
             pos == fmt_event_BASESIZE
         IN  IF Len(buf) < fmt_transactiondata_contractdeployment_BASESIZE
                           + code_size + args_size
             THEN Err("IncorrectLength")
             ELSE Ok([contract_code |-> Slice(buf, pos, pos + code_size),
                      contract_init_arguments |->
                          Slice(buf, pos + code_size, pos + code_size + args_size)])

\* ------------------------------------------------------------------- Event
\* Event::size_of
Event_size_of(msg) == Len(msg.topic) + Len(msg.value) + fmt_event_BASESIZE

\* Event::size_from_slice
Event_size_from_slice(buf) ==
    IF Len(buf) < fmt_event_BASESIZE THEN Err("IncorrectLength")
    ELSE Ok(fmt_event_BASESIZE + deserialize_u32(buf, fmt_event.TOPICSIZE)
                               + deserialize_u32(buf, fmt_event.VALUESIZE))

\* Event::serialize_to_slice: the contents of ret after the call
Event_serialize_to_slice(msg, ret) ==
    LET msg_topic_size == Len(msg.topic)
        msg_value_size == Len(msg.value)
        r1 == serialize(ret, fmt_event.TOPICSIZE, to_le_bytes(msg_topic_size, 4))
        r2 == serialize(r1, fmt_event.VALUESIZE, to_le_bytes(msg_value_size, 4))
        pos == fmt_event_BASESIZE
        r3 == copy_at(r2, pos, msg.topic)
    IN  copy_at(r3, pos + msg_topic_size, msg.value)

\* impl Serializable for Event
Event_serialize(msg) == Event_serialize_to_slice(msg, Zeros(Event_size_of(msg)))

\* Event::deserialize that forgets `pos += topic_size` before reading the value
Event_deserialize_value_at_topic(buf) ==
    IF Len(buf) < fmt_event_BASESIZE THEN Err("IncorrectLength")
    ELSE LET topic_size == deserialize_u32(buf, fmt_event.TOPICSIZE)
             value_size == deserialize_u32(buf, fmt_event.VALUESIZE)
             pos == fmt_event_BASESIZE
         IN  IF Len(buf) < fmt_event_BASESIZE + topic_size + value_size
             THEN Err("IncorrectLength")
             ELSE Ok([topic |-> Slice(buf, pos, pos + topic_size),
                      value |-> Slice(buf, pos, pos + value_size)])

\* impl Deserializable for Event
Event_deserialize(buf) ==
    IF Len(buf) < fmt_event_BASESIZE THEN Err("IncorrectLength")
    ELSE LET topic_size == deserialize_u32(buf, fmt_event.TOPICSIZE)
             value_size == deserialize_u32(buf, fmt_event.VALUESIZE)
             pos == fmt_event_BASESIZE
         IN  IF Len(buf) < fmt_event_BASESIZE + topic_size + value_size
             THEN Err("IncorrectLength")
             ELSE Ok([topic |-> Slice(buf, pos, pos + topic_size),
                      value |-> Slice(buf, pos + topic_size,
                                      pos + topic_size + value_size)])

\* ----------------------------------------------------------------- Receipt
RECURSIVE SumEventSizes(_)
\* msg.events.iter().map(|e| Event::size_of(e)).sum()
SumEventSizes(events) ==
    IF events = <<>> THEN 0
    ELSE Event_size_of(Head(events)) + SumEventSizes(Tail(events))

\* Receipt::size_of
Receipt_size_of(msg) ==
    Len(msg.return_value) + SumEventSizes(msg.events) + fmt_receipt_BASESIZE

\* size_from_slice that leaves the events region out of the size
Receipt_size_from_slice_no_events(buf) ==
    IF Len(buf) < fmt_receipt_BASESIZE THEN Err("IncorrectLength")
    ELSE Ok(fmt_receipt_BASESIZE + deserialize_u32(buf, fmt_receipt.RETURNVALSIZE))

\* Receipt::size_from_slice
Receipt_size_from_slice(buf) ==
    IF Len(buf) < fmt_receipt_BASESIZE THEN Err("IncorrectLength")
    ELSE Ok(fmt_receipt_BASESIZE + deserialize_u32(buf, fmt_receipt.RETURNVALSIZE)
                                 + deserialize_u32(buf, fmt_receipt.EVENTSSIZE))

RECURSIVE Receipt_serialize_events(_, _, _)
\* msg.events.iter().for_each(|e| pos += Event::serialize_to_slice(e, &mut ret[pos..]))
Receipt_serialize_events(events, ret, pos) ==
    IF events = <<>> THEN ret
    ELSE Receipt_serialize_events(
             Tail(events),
             SubSeq(ret, 1, pos) \o Event_serialize_to_slice(Head(events), SliceFrom(ret, pos)),
             pos + Event_size_of(Head(events)))

\* Receipt::serialize_to_slice: the contents of ret after the call
Receipt_serialize_to_slice(msg, ret) ==
    LET msg_return_value_size == Len(msg.return_value)
        events_size == SumEventSizes(msg.events)
        r0 == serialize(ret, fmt_receipt.STATUSCODE,
                        <<ReceiptStatusCode_into(msg.status_code)>>)
        r1 == serialize(r0, fmt_receipt.GASCONSUMED, to_le_bytes(msg.gas_consumed, 8))
        r2 == serialize(r1, fmt_receipt.RETURNVALSIZE,
                        to_le_bytes(msg_return_value_size, 4))
        r3 == serialize(r2, fmt_receipt.EVENTSSIZE, to_le_bytes(events_size, 4))
        pos == fmt_receipt_BASESIZE
        r4 == copy_at(r3, pos, msg.return_value)
    IN  Receipt_serialize_events(msg.events, r4, pos + msg_return_value_size)

\* impl Serializable for Receipt
Receipt_serialize(msg) == Receipt_serialize_to_slice(msg, Zeros(Receipt_size_of(msg)))

RECURSIVE Receipt_deserialize_events(_, _, _)
\* the loop `while pos < buf.len()` of Receipt::deserialize
Receipt_deserialize_events(buf, pos, events) ==
    IF ~(pos < Len(buf)) THEN Ok(events)
    ELSE let(SliceFrom(buf, pos), LAMBDA events_buf :
         let(Event_size_from_slice(events_buf), LAMBDA size_of_i_th_evt :
             IF ~IsOk(size_of_i_th_evt) THEN size_of_i_th_evt
             \* &events_buf[..size_of_i_th_evt]
             ELSE IF size_of_i_th_evt.val > Len(events_buf) THEN Panic
             ELSE let(Event_deserialize(Slice(events_buf, 0, size_of_i_th_evt.val)),
                      LAMBDA evt :
                      IF ~IsOk(evt) THEN evt
                      ELSE Receipt_deserialize_events(
                               buf, pos + size_of_i_th_evt.val, Append(events, evt.val)))))

\* Receipt::deserialize that compares the declared sizes with the buffer
\* before it looks at the status byte
Receipt_deserialize_length_first(buf) ==
    IF Len(buf) < fmt_receipt_BASESIZE THEN Err("IncorrectLength")
    ELSE LET status_code == ReceiptStatusCode_try_from(buf[fmt_receipt.STATUSCODE[2] + 1])
             msg_return_value_size == deserialize_u32(buf, fmt_receipt.RETURNVALSIZE)
             events_size == deserialize_u32(buf, fmt_receipt.EVENTSSIZE)
             pos == fmt_receipt_BASESIZE
         IN
         IF Len(buf) < fmt_receipt_BASESIZE + msg_return_value_size + events_size
         THEN Err("IncorrectLength")
         ELSE IF ~IsOk(status_code) THEN status_code
         ELSE LET events == Receipt_deserialize_events(
                                buf, pos + msg_return_value_size, <<>>)
              IN  IF ~IsOk(events) THEN events
                  ELSE Ok([gas_consumed |-> deserialize_u64(buf, fmt_receipt.GASCONSUMED),
                           status_code |-> status_code.val,
                           return_value |-> Slice(buf, pos, pos + msg_return_value_size),
                           events |-> events.val])

\* impl Deserializable for Receipt
Receipt_deserialize(buf) ==
    IF Len(buf) < fmt_receipt_BASESIZE THEN Err("IncorrectLength")
    ELSE LET status_code == ReceiptStatusCode_try_from(buf[fmt_receipt.STATUSCODE[2] + 1])
         IN
         IF ~IsOk(status_code) THEN status_code
         ELSE LET msg_return_value_size == deserialize_u32(buf, fmt_receipt.RETURNVALSIZE)
                  events_size == deserialize_u32(buf, fmt_receipt.EVENTSSIZE)
                  pos == fmt_receipt_BASESIZE
              IN
              IF Len(buf) < fmt_receipt_BASESIZE + msg_return_value_size + events_size
              THEN Err("IncorrectLength")
              ELSE let(Receipt_deserialize_events(buf, pos + msg_return_value_size, <<>>),
                       LAMBDA events :
                       IF ~IsOk(events) THEN events
                       ELSE Ok([gas_consumed |-> deserialize_u64(buf, fmt_receipt.GASCONSUMED),
                                status_code |-> status_code.val,
                                return_value |-> Slice(buf, pos, pos + msg_return_value_size),
                                events |-> events.val]))

\* ------------------------------------------------------------- BlockHeader
\* BlockHeader::serialize that writes state_hash and txs_hash at each other's
\* offset
BlockHeader_serialize_hashes_swapped(msg) ==
    LET ret == Zeros(fmt_blockheader_BASESIZE)
        r1 == serialize(ret, fmt_blockheader.ID, to_le_bytes(msg.blockchain_id, 8))
        r2 == serialize(r1, fmt_blockheader.VERSION,
                        to_le_bytes(msg.block_version_number, 8))
        r3 == serialize(r2, fmt_blockheader.TIMESTAMP, to_le_bytes(msg.timestamp, 4))
        r4 == serialize(r3, fmt_blockheader.PREVHASH, msg.prev_block_hash)
        r5 == serialize(r4, fmt_blockheader.BLOCKHASH, msg.this_block_hash)
        r6 == serialize(r5, fmt_blockheader.TXSHASH, msg.state_hash)
        r7 == serialize(r6, fmt_blockheader.STATEHASH, msg.txs_hash)
        r8 == serialize(r7, fmt_blockheader.RECEIPTHASH, msg.receipts_hash)
        r9 == serialize(r8, fmt_blockheader.PUBKEY, msg.proposer_public_key)
    IN  serialize(r9, fmt_blockheader.SIGNATURE, msg.signature)

\* impl Serializable for BlockHeader
BlockHeader_serialize(msg) ==
    LET ret == Zeros(fmt_blockheader_BASESIZE)
        r1 == serialize(ret, fmt_blockheader.ID, to_le_bytes(msg.blockchain_id, 8))
        r2 == serialize(r1, fmt_blockheader.VERSION,
                        to_le_bytes(msg.block_version_number, 8))
        r3 == serialize(r2, fmt_blockheader.TIMESTAMP, to_le_bytes(msg.timestamp, 4))
        r4 == serialize(r3, fmt_blockheader.PREVHASH, msg.prev_block_hash)
        r5 == serialize(r4, fmt_blockheader.BLOCKHASH, msg.this_block_hash)
        r6 == serialize(r5, fmt_blockheader.STATEHASH, msg.state_hash)
        r7 == serialize(r6, fmt_blockheader.TXSHASH, msg.txs_hash)
        r8 == serialize(r7, fmt_blockheader.RECEIPTHASH, msg.receipts_hash)
        r9 == serialize(r8, fmt_blockheader.PUBKEY, msg.proposer_public_key)
    IN  serialize(r9, fmt_blockheader.SIGNATURE, msg.signature)

\* BlockHeader::deserialize without its length check: the first field read
\* past the end of buf panics
BlockHeader_deserialize_unchecked(buf) ==
    IF Len(buf) < fmt_blockheader_BASESIZE THEN Panic
    ELSE Ok([blockchain_id |-> deserialize_u64(buf, fmt_blockheader.ID),
             block_version_number |-> deserialize_u64(buf, fmt_blockheader.VERSION),
             timestamp |-> deserialize_u32(buf, fmt_blockheader.TIMESTAMP),
             prev_block_hash |-> deserialize_32bytes(buf, fmt_blockheader.PREVHASH),
             this_block_hash |-> deserialize_32bytes(buf, fmt_blockheader.BLOCKHASH),
             txs_hash |-> deserialize_32bytes(buf, fmt_blockheader.TXSHASH),
             state_hash |-> deserialize_32bytes(buf, fmt_blockheader.STATEHASH),
             receipts_hash |-> deserialize_32bytes(buf, fmt_blockheader.RECEIPTHASH),
             proposer_public_key |-> deserialize_32bytes(buf, fmt_blockheader.PUBKEY),
             signature |-> deserialize_64bytes(buf, fmt_blockheader.SIGNATURE)])

\* impl Deserializable for BlockHeader
BlockHeader_deserialize(buf) ==
    IF Len(buf) < fmt_blockheader_BASESIZE THEN Err("IncorrectLength")
    ELSE Ok([blockchain_id |-> deserialize_u64(buf, fmt_blockheader.ID),
             block_version_number |-> deserialize_u64(buf, fmt_blockheader.VERSION),
             timestamp |-> deserialize_u32(buf, fmt_blockheader.TIMESTAMP),
             prev_block_hash |-> deserialize_32bytes(buf, fmt_blockheader.PREVHASH),
             this_block_hash |-> deserialize_32bytes(buf, fmt_blockheader.BLOCKHASH),
             txs_hash |-> deserialize_32bytes(buf, fmt_blockheader.TXSHASH),
             state_hash |-> deserialize_32bytes(buf, fmt_blockheader.STATEHASH),
             receipts_hash |-> deserialize_32bytes(buf, fmt_blockheader.RECEIPTHASH),
             proposer_public_key |-> deserialize_32bytes(buf, fmt_blockheader.PUBKEY),
             signature |-> deserialize_64bytes(buf, fmt_blockheader.SIGNATURE)])

\* ------------------------------------------------------------- sc_params
\* impl Serializable for ParamsFromTransaction
ParamsFromTransaction_serialize(msg) ==
    LET ret == Zeros(fmt_paramsfromtransaction_BASESIZE + Len(msg.data))
        r1 == serialize(ret, fmt_paramsfromtransaction.FROMADDRESS, msg.from_address)
        r2 == serialize(r1, fmt_paramsfromtransaction.TOADDRESS, msg.to_address)
        r3 == serialize(r2, fmt_paramsfromtransaction.VALUE, to_le_bytes(msg.value, 8))
        r4 == serialize(r3, fmt_paramsfromtransaction.HASH, msg.transaction_hash)
        r5 == serialize(r4, fmt_paramsfromtransaction.DATASIZE,
                        to_le_bytes(Len(msg.data), 4))
    IN  copy_at(r5, fmt_paramsfromtransaction_BASESIZE, msg.data)

\* impl Deserializable for ParamsFromTransaction
ParamsFromTransaction_deserialize(buf) ==
    IF Len(buf) < fmt_paramsfromtransaction_BASESIZE THEN Err("IncorrectLength")
    ELSE LET data_size == deserialize_u32(buf, fmt_paramsfromtransaction.DATASIZE) IN
         IF Len(buf) < fmt_paramsfromtransaction_BASESIZE + data_size
         THEN Err("IncorrectLength")
         \* data.copy_from_slice(&buf[BASESIZE..]): both sides must be equally long
         ELSE IF Len(SliceFrom(buf, fmt_paramsfromtransaction_BASESIZE)) # data_size
         THEN Panic
         ELSE Ok([from_address |->
                      deserialize_32bytes(buf, fmt_paramsfromtransaction.FROMADDRESS),
                  to_address |->
                      deserialize_32bytes(buf, fmt_paramsfromtransaction.TOADDRESS),
                  value |-> deserialize_u64(buf, fmt_paramsfromtransaction.VALUE),
                  data |-> SliceFrom(buf, fmt_paramsfromtransaction_BASESIZE),
                  transaction_hash |->
                      deserialize_32bytes(buf, fmt_paramsfromtransaction.HASH)])

\* impl Serializable for ParamsFromBlockchain
ParamsFromBlockchain_serialize(msg) ==
    LET ret == Zeros(fmt_paramsfromblockchain_BASESIZE)
        r1 == serialize(ret, fmt_paramsfromblockchain.BLOCKNUM,
                        to_le_bytes(msg.this_block_number, 8))
        r2 == serialize(r1, fmt_paramsfromblockchain.PREVHASH, msg.prev_block_hash)
        r3 == serialize(r2, fmt_paramsfromblockchain.TIMESTAMP,
                        to_le_bytes(msg.timestamp, 4))
    IN  serialize(r3, fmt_paramsfromblockchain.RANDOMBYTES, msg.random_bytes)

\* impl Deserializable for ParamsFromBlockchain
ParamsFromBlockchain_deserialize(buf) ==
    IF Len(buf) < fmt_paramsfromblockchain_BASESIZE THEN Err("IncorrectLength")
    ELSE Ok([this_block_number |->
                 deserialize_u64(buf, fmt_paramsfromblockchain.BLOCKNUM),
             prev_block_hash |->
                 deserialize_32bytes(buf, fmt_paramsfromblockchain.PREVHASH),
             timestamp |-> deserialize_u32(buf, fmt_paramsfromblockchain.TIMESTAMP),
             random_bytes |->
                 deserialize_32bytes(buf, fmt_paramsfromblockchain.RANDOMBYTES)])

\* a UTF-8 continuation byte
IsContinuation(b) == 128 <= b /\ b <= 191

RECURSIVE from_utf8_valid(_)
\* the validation of String::from_utf8 (a String is kept as its UTF-8 bytes)
from_utf8_valid(bs) ==
    IF bs = <<>> THEN TRUE
    ELSE LET b == bs[1]
             n == Len(bs)
         IN  IF b <= 127 THEN from_utf8_valid(Tail(bs))
             ELSE IF 194 <= b /\ b <= 223
             THEN n >= 2 /\ IsContinuation(bs[2]) /\ from_utf8_valid(SubSeq(bs, 3, n))
             ELSE IF 224 <= b /\ b <= 239
             THEN /\ n >= 3
                  /\ IF b = 224 THEN 160 <= bs[2] /\ bs[2] <= 191
                     ELSE IF b = 237 THEN 128 <= bs[2] /\ bs[2] <= 159
                     ELSE IsContinuation(bs[2])
                  /\ IsContinuation(bs[3])
                  /\ from_utf8_valid(SubSeq(bs, 4, n))
             ELSE IF 240 <= b /\ b <= 244
             THEN /\ n >= 4
                  /\ IF b = 240 THEN 144 <= bs[2] /\ bs[2] <= 191
                     ELSE IF b = 244 THEN 128 <= bs[2] /\ bs[2] <= 143
                     ELSE IsContinuation(bs[2])
                  /\ IsContinuation(bs[3])
                  /\ IsContinuation(bs[4])
                  /\ from_utf8_valid(SubSeq(bs, 5, n))
             ELSE FALSE

\* impl Serializable for CallData
CallData_serialize(msg) ==
    LET method_name_size == Len(msg.method_name)
        arguments_size == Len(msg.arguments)
        ret == Zeros(fmt_calldata.METHOD_SIZE[1] + fmt_calldata.ARGS_SIZE[1]
                     + method_name_size + arguments_size)
        r1 == serialize(ret, fmt_calldata.METHOD_SIZE, to_le_bytes(method_name_size, 4))
        r2 == serialize(r1, fmt_calldata.ARGS_SIZE, to_le_bytes(arguments_size, 4))
        r3 == copy_at(r2, fmt_calldata_BASESIZE, msg.method_name)
    IN  copy_at(r3, fmt_calldata_BASESIZE + method_name_size, msg.arguments)

\* CallData::deserialize that validates the name bytes it has before it
\* compares the declared sizes with the buffer length
CallData_deserialize_text_first(buf) ==
    IF Len(buf) < fmt_calldata_BASESIZE THEN Err("IncorrectLength")
    ELSE LET method_name_size == deserialize_u32(buf, fmt_calldata.METHOD_SIZE)
             arguments_size == deserialize_u32(buf, fmt_calldata.ARGS_SIZE)
             rest == SliceFrom(buf, fmt_calldata_BASESIZE)
             have == IF Len(rest) < method_name_size THEN Len(rest) ELSE method_name_size
         IN  IF ~from_utf8_valid(Slice(rest, 0, have)) THEN Err("StringParseError")
             ELSE IF Len(rest) < method_name_size + arguments_size
             THEN Err("IncorrectLength")
             ELSE Ok([method_name |-> Slice(rest, 0, method_name_size),
                      arguments |-> SliceFrom(rest, method_name_size)])

\* impl Deserializable for CallData
CallData_deserialize(buf) ==
    IF Len(buf) < fmt_calldata_BASESIZE THEN Err("IncorrectLength")
    ELSE LET method_name_size == deserialize_u32(buf, fmt_calldata.METHOD_SIZE)
             arguments_size == deserialize_u32(buf, fmt_calldata.ARGS_SIZE)
             rest == SliceFrom(buf, fmt_calldata_BASESIZE)
         IN  IF Len(rest) < method_name_size + arguments_size THEN Err("IncorrectLength")
             ELSE LET buf_method_name == Slice(rest, 0, method_name_size)
                      buf_arguments == SliceFrom(rest, method_name_size)
                  IN  IF ~from_utf8_valid(buf_method_name) THEN Err("StringParseError")
                      ELSE Ok([method_name |-> buf_method_name,
                               arguments |-> buf_arguments])

\* ------------------------------------------------------------- MerkleProof
\* a machine word (usize, 64 bits) of value hi * 2^32 + lo
usize(hi, lo) == [hi |-> hi, lo |-> lo]

\* x as u32, x a usize: the low 32 bits
as_u32(x) == x.lo

\* n as usize, n a u32
as_usize(n) == [hi |-> 0, lo |-> n]

RECURSIVE FlatMap_le_u32(_)
\* msg.leaf_indices.iter().flat_map(|i| (*i as u32).to_le_bytes()).collect()
FlatMap_le_u32(xs) ==
    IF xs = <<>> THEN <<>>
    ELSE to_le_bytes(as_u32(Head(xs)), 4) \o FlatMap_le_u32(Tail(xs))

RECURSIVE Concat(_)
\* [a, b, ...].concat() and flat_map(..).collect() over byte vectors
Concat(xs) == IF xs = <<>> THEN <<>> ELSE Head(xs) \o Concat(Tail(xs))

\* impl Serializable for MerkleProof
MerkleProof_serialize(msg) ==
    LET leaf_indices_size == Len(msg.leaf_indices) * SizeOfU32
        leaf_hashes_size == Len(msg.leaf_hashes) * 32
        ret == Zeros(fmt_merkleproof_BASESIZE + leaf_indices_size + leaf_hashes_size
                     + Len(msg.proof))
        r1 == serialize(ret, fmt_merkleproof.ROOTHASH, msg.root_hash)
        r2 == serialize(r1, fmt_merkleproof.TOTALLEAVES,
                        to_le_bytes(as_u32(msg.total_leaves_count), 4))
        r3 == serialize(r2, fmt_merkleproof.LEAFINDSIZE, to_le_bytes(leaf_indices_size, 4))
        r4 == serialize(r3, fmt_merkleproof.LEAFHASHSIZE, to_le_bytes(leaf_hashes_size, 4))
        r5 == serialize(r4, fmt_merkleproof.PROOFSIZE, to_le_bytes(Len(msg.proof), 4))
        pos == fmt_merkleproof_BASESIZE
        r6 == copy_at(r5, pos, FlatMap_le_u32(msg.leaf_indices))
        r7 == copy_at(r6, pos + leaf_indices_size, Concat(msg.leaf_hashes))
    IN  copy_at(r7, pos + leaf_indices_size + leaf_hashes_size, msg.proof)

RECURSIVE MerkleProof_leaf_indices(_, _, _)
\* the loop over leaf_indices_buf of MerkleProof::deserialize
MerkleProof_leaf_indices(leaf_indices_buf, pos, out) ==
    IF ~(pos < Len(leaf_indices_buf)) THEN Ok(out)
    ELSE IF Len(leaf_indices_buf) < pos + SizeOfU32 THEN Err("IncorrectLength")
    ELSE MerkleProof_leaf_indices(
             leaf_indices_buf, pos + SizeOfU32,
             Append(out, as_usize(from_le_bytes(Slice(leaf_indices_buf, pos,
                                                         pos + SizeOfU32)))))

RECURSIVE MerkleProof_leaf_hashes(_, _, _)
\* the loop over leaf_hashes_buf of MerkleProof::deserialize
MerkleProof_leaf_hashes(leaf_hashes_buf, pos, out) ==
    IF ~(pos < Len(leaf_hashes_buf)) THEN Ok(out)
    ELSE IF Len(leaf_hashes_buf) < pos + 32 THEN Err("IncorrectLength")
    ELSE MerkleProof_leaf_hashes(
             leaf_hashes_buf, pos + 32,
             Append(out, deserialize_32bytes(leaf_hashes_buf, <<32, pos>>)))

\* MerkleProof::deserialize whose length check leaves out proof_size
MerkleProof_deserialize_proof_unchecked(buf) ==
    IF Len(buf) < fmt_merkleproof_BASESIZE THEN Err("IncorrectLength")
    ELSE LET leaf_indices_size == deserialize_u32(buf, fmt_merkleproof.LEAFINDSIZE)
             leaf_hashes_size == deserialize_u32(buf, fmt_merkleproof.LEAFHASHSIZE)
         IN
         IF Len(buf) < fmt_merkleproof_BASESIZE + leaf_indices_size + leaf_hashes_size
         THEN Err("IncorrectLength")
         ELSE LET rest == SliceFrom(buf, fmt_merkleproof_BASESIZE)
                  leaf_indices_buf == Slice(rest, 0, leaf_indices_size)
                  remaining_buf == SliceFrom(rest, leaf_indices_size)
                  leaf_hashes_buf == Slice(remaining_buf, 0, leaf_hashes_size)
                  proof_buf == SliceFrom(remaining_buf, leaf_hashes_size)
                  leaf_indices == MerkleProof_leaf_indices(leaf_indices_buf, 0, <<>>)
                  leaf_hashes == MerkleProof_leaf_hashes(leaf_hashes_buf, 0, <<>>)
              IN  IF ~IsOk(leaf_indices) THEN leaf_indices
                  ELSE IF ~IsOk(leaf_hashes) THEN leaf_hashes
                  ELSE Ok([root_hash |-> deserialize_32bytes(buf, fmt_merkleproof.ROOTHASH),
                           total_leaves_count |->
                               as_usize(deserialize_u32(buf, fmt_merkleproof.TOTALLEAVES)),
                           leaf_indices |-> leaf_indices.val,
                           leaf_hashes |-> leaf_hashes.val,
                           proof |-> proof_buf])

\* impl Deserializable for MerkleProof
MerkleProof_deserialize(buf) ==
    IF Len(buf) < fmt_merkleproof_BASESIZE THEN Err("IncorrectLength")
    ELSE LET leaf_indices_size == deserialize_u32(buf, fmt_merkleproof.LEAFINDSIZE)
             leaf_hashes_size == deserialize_u32(buf, fmt_merkleproof.LEAFHASHSIZE)
             proof_size == deserialize_u32(buf, fmt_merkleproof.PROOFSIZE)
         IN
         IF Len(buf) < fmt_merkleproof_BASESIZE + leaf_indices_size + leaf_hashes_size
                       + proof_size
         THEN Err("IncorrectLength")
         ELSE LET rest == SliceFrom(buf, fmt_merkleproof_BASESIZE)
                  leaf_indices_buf == Slice(rest, 0, leaf_indices_size)
                  remaining_buf == SliceFrom(rest, leaf_indices_size)
                  leaf_hashes_buf == Slice(remaining_buf, 0, leaf_hashes_size)
                  proof_buf == SliceFrom(remaining_buf, leaf_hashes_size)
                  leaf_indices == MerkleProof_leaf_indices(leaf_indices_buf, 0, <<>>)
                  leaf_hashes == MerkleProof_leaf_hashes(leaf_hashes_buf, 0, <<>>)
              IN  IF ~IsOk(leaf_indices) THEN leaf_indices
                  ELSE IF ~IsOk(leaf_hashes) THEN leaf_hashes
                  ELSE Ok([root_hash |-> deserialize_32bytes(buf, fmt_merkleproof.ROOTHASH),
                           total_leaves_count |->
                               as_usize(deserialize_u32(buf, fmt_merkleproof.TOTALLEAVES)),
                           leaf_indices |-> leaf_indices.val,
                           leaf_hashes |-> leaf_hashes.val,
                           proof |-> proof_buf])

\* ------------------------------------------------------------ blanket impls
\* Option<T>: None is <<>>, Some(x) is <<x>>; a tuple (a, b) is <<a, b>>
None == <<>>
Some(x) == <<x>>

\* impl Serializable for Vec<u8>
Vec_u8_serialize(msg) == msg

\* impl Deserializable for Vec<u8>
Vec_u8_deserialize(buf) == Ok(buf)

\* impl Serializable for Option<T>
Option_serialize(T_serialize(_), msg) ==
    IF msg = None THEN <<0>> ELSE <<1>> \o T_serialize(msg[1])

\* impl Deserializable for Option<T>
Option_deserialize(T_deserialize(_), buf) ==
    IF Len(buf) = 0 THEN Err("IncorrectLength")
    ELSE IF buf[1] = 0 THEN Ok(None)
    ELSE LET inner == T_deserialize(SliceFrom(buf, 1))
         IN  IF ~IsOk(inner) THEN inner ELSE Ok(Some(inner.val))

\* impl Serializable for (T1, T2)
Tuple2_serialize(T1_serialize(_), T2_serialize(_), msg) ==
    LET serialzied_1 == T1_serialize(msg[1])
        serialzied_2 == T2_serialize(msg[2])
    IN  Concat(<<to_le_bytes(Len(serialzied_1), 4), to_le_bytes(Len(serialzied_2), 4),
                 serialzied_1, serialzied_2>>)

\* impl Deserializable for (T1, T2)
Tuple2_deserialize(T1_deserialize(_), T2_deserialize(_), buf) ==
    IF Len(buf) < 2 * SizeOfU32 THEN Err("IncorrectLength")
    ELSE LET size_1 == deserialize_u32(buf, <<SizeOfU32, 0>>)
             buf1 == SliceFrom(buf, SizeOfU32)
             size_2 == deserialize_u32(buf1, <<SizeOfU32, 0>>)
             buf2 == SliceFrom(buf1, SizeOfU32)
         IN  IF Len(buf2) # size_1 + size_2 THEN Err("IncorrectLength")
             ELSE LET d1 == T1_deserialize(Slice(buf2, 0, size_1))
                      d2 == T2_deserialize(SliceFrom(buf2, size_1))
                  IN  IF ~IsOk(d1) THEN d1
                      ELSE IF ~IsOk(d2) THEN d2
                      ELSE Ok(<<d1.val, d2.val>>)

\* impl Serializable for (T1, T2, T3) (packaged crate pchain-types 0.2.0)
Tuple3_serialize(T1_serialize(_), T2_serialize(_), T3_serialize(_), msg) ==
    LET serialzied_1 == T1_serialize(msg[1])
        serialzied_2 == T2_serialize(msg[2])
        serialzied_3 == T3_serialize(msg[3])
    IN  Concat(<<to_le_bytes(Len(serialzied_1), 4), to_le_bytes(Len(serialzied_2), 4),
                 to_le_bytes(Len(serialzied_3), 4),
                 serialzied_1, serialzied_2, serialzied_3>>)

\* impl Deserializable for (T1, T2, T3) (packaged crate pchain-types 0.2.0)
Tuple3_deserialize(T1_deserialize(_), T2_deserialize(_), T3_deserialize(_), buf) ==
    IF Len(buf) < 3 * SizeOfU32 THEN Err("IncorrectLength")
    ELSE LET size_1 == deserialize_u32(buf, <<SizeOfU32, 0>>)
             buf1 == SliceFrom(buf, SizeOfU32)
             size_2 == deserialize_u32(buf1, <<SizeOfU32, 0>>)
             buf2 == SliceFrom(buf1, SizeOfU32)
             size_3 == deserialize_u32(buf2, <<SizeOfU32, 0>>)
             buf3 == SliceFrom(buf2, SizeOfU32)
         IN  IF Len(buf3) # size_1 + size_2 + size_3 THEN Err("IncorrectLength")
             ELSE LET serialized_1 == Slice(buf3, 0, size_1)
                      rest == SliceFrom(buf3, size_1)
                      serialized_2 == Slice(rest, 0, size_2)
                      serialized_3 == SliceFrom(rest, size_2)
                      d1 == T1_deserialize(serialized_1)
                      d2 == T2_deserialize(serialized_2)
                      d3 == T3_deserialize(serialized_3)
                  IN  IF ~IsOk(d1) THEN d1
                      ELSE IF ~IsOk(d2) THEN d2
                      ELSE IF ~IsOk(d3) THEN d3
                      ELSE Ok(<<d1.val, d2.val, d3.val>>)

\* impl Serializable for Vec<T>
Vec_serialize(T_serialize(_), msgs) ==
    LET num_of_msg_bytes == to_le_bytes(Len(msgs), 4)
        msg_size_bytes == [i \in 1..Len(msgs) |-> to_le_bytes(Len(T_serialize(msgs[i])), 4)]
        msg_data_bytes == [i \in 1..Len(msgs) |-> T_serialize(msgs[i])]
    IN  Concat(<<num_of_msg_bytes, Concat(msg_size_bytes), Concat(msg_data_bytes)>>)

\* impl Deserializable for Vec<T>
Vec_deserialize(T_deserialize(_), buf0) ==
    IF Len(buf0) < SizeOfU32 THEN Err("IncorrectLength")
    ELSE LET num_of_msg == deserialize_u32(buf0, <<SizeOfU32, 0>>)
             buf == SliceFrom(buf0, SizeOfU32)
             sizes_len == num_of_msg * SizeOfU32
         IN
         IF Len(buf) < sizes_len THEN Err("IncorrectLength")
         ELSE LET buf_data == SliceFrom(buf, sizes_len)
                  RECURSIVE loop(_, _, _)
                  \* while pos_size < sizes_len
                  loop(pos_size, pos_data, all_deserialized) ==
                      IF ~(pos_size < sizes_len) THEN Ok(all_deserialized)
                      ELSE LET deserialized_size ==
                                   from_le_bytes(Slice(buf, pos_size, pos_size + SizeOfU32))
                           IN  IF Len(buf_data) < pos_data + deserialized_size
                               THEN Err("IncorrectLength")
                               ELSE LET deserialized ==
                                            T_deserialize(Slice(buf_data, pos_data,
                                                                pos_data + deserialized_size))
                                    IN  IF ~IsOk(deserialized) THEN deserialized
                                        ELSE loop(pos_size + SizeOfU32,
                                                  pos_data + deserialized_size,
                                                  Append(all_deserialized, deserialized.val))
              IN  loop(0, 0, <<>>)

\* ------------------------------------------------------------- StateProofs
\* Option<Vec<u8>>
Option_Vec_u8_serialize(msg) == Option_serialize(Vec_u8_serialize, msg)
\* Option<Vec<u8>>::deserialize that reports a present but empty value as absent
Option_Vec_u8_deserialize_empty_is_none(buf) ==
    IF Len(buf) = 0 THEN Err("IncorrectLength")
    ELSE IF buf[1] = 0 \/ Len(buf) = 1 THEN Ok(None)
    ELSE Ok(Some(SliceFrom(buf, 1)))

Option_Vec_u8_deserialize(buf) == Option_deserialize(Vec_u8_deserialize, buf)

\* StateProofItem = (Vec<u8>, Option<Vec<u8>>)
StateProofItem_serialize(msg) ==
    Tuple2_serialize(Vec_u8_serialize, Option_Vec_u8_serialize, msg)
StateProofItem_deserialize(buf) ==
    Tuple2_deserialize(Vec_u8_deserialize, Option_Vec_u8_deserialize, buf)

\* StateProof = Vec<Vec<u8>>
StateProof_serialize(msg) == Vec_serialize(Vec_u8_serialize, msg)
StateProof_deserialize(buf) == Vec_deserialize(Vec_u8_deserialize, buf)

\* impl Serializable for StateProofs
StateProofs_serialize(msg) ==
    LET items == Vec_serialize(StateProofItem_serialize, msg.items)
        proof == StateProof_serialize(msg.proof)
    IN  Concat(<<msg.root_hash, to_le_bytes(Len(items), 4), to_le_bytes(Len(proof), 4),
                 items, proof>>)

\* impl Deserializable for StateProofs
StateProofs_deserialize(buf0) ==
    IF Len(buf0) < 32 + 2 * SizeOfU32 THEN Err("IncorrectLength")
    ELSE LET root_hash == deserialize_32bytes(buf0, <<32, 0>>)
             buf1 == SliceFrom(buf0, 32)
             size_1 == deserialize_u32(buf1, <<SizeOfU32, 0>>)
             buf2 == SliceFrom(buf1, SizeOfU32)
             size_2 == deserialize_u32(buf2, <<SizeOfU32, 0>>)
             buf == SliceFrom(buf2, SizeOfU32)
         IN  IF Len(buf) < size_1 + size_2 THEN Err("IncorrectLength")
             ELSE LET items == Vec_deserialize(StateProofItem_deserialize,
                                               Slice(buf, 0, size_1))
                      proof == StateProof_deserialize(SliceFrom(buf, size_1))
                  IN  IF ~IsOk(items) THEN items
                      ELSE IF ~IsOk(proof) THEN proof
                      ELSE Ok([root_hash |-> root_hash, items |-> items.val,
                               proof |-> proof.val])

\* ------------------------------------------------- types built from the impls
\* a type T with Serializable / Deserializable impls, as the compiler resolves
\* it: Vec<u8>, CallData, Option<T>, (T1, T2), (T1, T2, T3), Vec<T>
TBytes == [k |-> "Vec<u8>"]
TCallData == [k |-> "CallData"]
TTransaction == [k |-> "Transaction"]
TOption(t) == [k |-> "Option", of |-> t]
TTuple2(a, b) == [k |-> "Tuple2", t1 |-> a, t2 |-> b]
TTuple3(a, b, c) == [k |-> "Tuple3", t1 |-> a, t2 |-> b, t3 |-> c]
TVec(t) == [k |-> "Vec", of |-> t]

RECURSIVE T_serialize(_, _)
\* T::serialize with an Option<T> impl that writes no tag byte for None
T_serialize_none_is_empty(T, msg) ==
    CASE T.k = "Vec<u8>" -> Vec_u8_serialize(msg)
      [] T.k = "CallData" -> CallData_serialize(msg)
      [] T.k = "Transaction" -> Transaction_serialize(msg)
      [] T.k = "Option" ->
             IF msg = None THEN <<>>
             ELSE Option_serialize(LAMBDA m : T_serialize(T.of, m), msg)
      [] T.k = "Tuple2" ->
             Tuple2_serialize(LAMBDA m : T_serialize(T.t1, m),
                              LAMBDA m : T_serialize(T.t2, m), msg)
      [] T.k = "Tuple3" ->
             Tuple3_serialize(LAMBDA m : T_serialize(T.t1, m),
                              LAMBDA m : T_serialize(T.t2, m),
                              LAMBDA m : T_serialize(T.t3, m), msg)
      [] T.k = "Vec" -> Vec_serialize(LAMBDA m : T_serialize(T.of, m), msg)

\* T::serialize(&msg)
T_serialize(T, msg) ==
    CASE T.k = "Vec<u8>" -> Vec_u8_serialize(msg)
      [] T.k = "CallData" -> CallData_serialize(msg)
      [] T.k = "Transaction" -> Transaction_serialize(msg)
      [] T.k = "Option" -> Option_serialize(LAMBDA m : T_serialize(T.of, m), msg)
      [] T.k = "Tuple2" ->
             Tuple2_serialize(LAMBDA m : T_serialize(T.t1, m),
                              LAMBDA m : T_serialize(T.t2, m), msg)
      [] T.k = "Tuple3" ->
             Tuple3_serialize(LAMBDA m : T_serialize(T.t1, m),
                              LAMBDA m : T_serialize(T.t2, m),
                              LAMBDA m : T_serialize(T.t3, m), msg)
      [] T.k = "Vec" -> Vec_serialize(LAMBDA m : T_serialize(T.of, m), msg)

RECURSIVE T_deserialize(_, _)
\* (T1, T2)::deserialize that only rejects buffers shorter than the declared
\* lengths, and gives every byte after the first part to the second element
Tuple2_deserialize_lenient(T1_deserialize(_), T2_deserialize(_), buf) ==
    IF Len(buf) < 2 * SizeOfU32 THEN Err("IncorrectLength")
    ELSE LET size_1 == deserialize_u32(buf, <<SizeOfU32, 0>>)
             buf1 == SliceFrom(buf, SizeOfU32)
             size_2 == deserialize_u32(buf1, <<SizeOfU32, 0>>)
             buf2 == SliceFrom(buf1, SizeOfU32)
         IN  IF Len(buf2) < size_1 + size_2 THEN Err("IncorrectLength")
             ELSE LET d1 == T1_deserialize(Slice(buf2, 0, size_1))
                      d2 == T2_deserialize(SliceFrom(buf2, size_1))
                  IN  IF ~IsOk(d1) THEN d1
                      ELSE IF ~IsOk(d2) THEN d2
                      ELSE Ok(<<d1.val, d2.val>>)

\* Option<T>::deserialize that takes 1 as the only tag of a present value
Option_deserialize_tag_checked(U_deserialize(_), buf) ==
    IF Len(buf) = 0 THEN Err("IncorrectLength")
    ELSE IF buf[1] = 0 THEN Ok(None)
    ELSE IF buf[1] # 1 THEN Err("IncorrectLength")
    ELSE LET inner == U_deserialize(SliceFrom(buf, 1))
         IN  IF ~IsOk(inner) THEN inner ELSE Ok(Some(inner.val))

\* T::deserialize with that Option<T> impl
T_deserialize_tag_checked(T, buf) ==
    CASE T.k = "Vec<u8>" -> Vec_u8_deserialize(buf)
      [] T.k = "CallData" -> CallData_deserialize(buf)
      [] T.k = "Transaction" -> Transaction_deserialize(buf)
      [] T.k = "Option" -> Option_deserialize_tag_checked(LAMBDA b : T_deserialize(T.of, b), buf)
      [] T.k = "Tuple2" ->
             Tuple2_deserialize(LAMBDA b : T_deserialize(T.t1, b),
                                LAMBDA b : T_deserialize(T.t2, b), buf)
      [] T.k = "Tuple3" ->
             Tuple3_deserialize(LAMBDA b : T_deserialize(T.t1, b),
                                LAMBDA b : T_deserialize(T.t2, b),
                                LAMBDA b : T_deserialize(T.t3, b), buf)
      [] T.k = "Vec" -> Vec_deserialize(LAMBDA b : T_deserialize(T.of, b), buf)

\* Option<T>::deserialize that accepts tag 0 only when nothing follows it
Option_deserialize_none_exact(U_deserialize(_), buf) ==
    IF Len(buf) = 0 THEN Err("IncorrectLength")
    ELSE IF buf[1] = 0
    THEN IF Len(buf) = 1 THEN Ok(None) ELSE Err("IncorrectLength")
    ELSE LET inner == U_deserialize(SliceFrom(buf, 1))
         IN  IF ~IsOk(inner) THEN inner ELSE Ok(Some(inner.val))

\* T::deserialize with that Option<T> impl
T_deserialize_none_exact(T, buf) ==
    CASE T.k = "Vec<u8>" -> Vec_u8_deserialize(buf)
      [] T.k = "CallData" -> CallData_deserialize(buf)
      [] T.k = "Transaction" -> Transaction_deserialize(buf)
      [] T.k = "Option" -> Option_deserialize_none_exact(LAMBDA b : T_deserialize(T.of, b), buf)
      [] T.k = "Tuple2" ->
             Tuple2_deserialize(LAMBDA b : T_deserialize(T.t1, b),
                                LAMBDA b : T_deserialize(T.t2, b), buf)
      [] T.k = "Tuple3" ->
             Tuple3_deserialize(LAMBDA b : T_deserialize(T.t1, b),
                                LAMBDA b : T_deserialize(T.t2, b),
                                LAMBDA b : T_deserialize(T.t3, b), buf)
      [] T.k = "Vec" -> Vec_deserialize(LAMBDA b : T_deserialize(T.of, b), buf)

\* Vec<T>::deserialize that returns the elements decoded so far when a declared
\* size runs past the data region
Vec_deserialize_stops_short(U_deserialize(_), buf0) ==
    IF Len(buf0) < SizeOfU32 THEN Err("IncorrectLength")
    ELSE LET num_of_msg == deserialize_u32(buf0, <<SizeOfU32, 0>>)
             buf == SliceFrom(buf0, SizeOfU32)
             sizes_len == num_of_msg * SizeOfU32
         IN
         IF Len(buf) < sizes_len THEN Err("IncorrectLength")
         ELSE LET buf_data == SliceFrom(buf, sizes_len)
                  RECURSIVE loop(_, _, _)
                  \* while pos_size < sizes_len
                  loop(pos_size, pos_data, all_deserialized) ==
                      IF ~(pos_size < sizes_len) THEN Ok(all_deserialized)
                      ELSE LET deserialized_size ==
                                   from_le_bytes(Slice(buf, pos_size, pos_size + SizeOfU32))
                           IN  IF Len(buf_data) < pos_data + deserialized_size
                               THEN Ok(all_deserialized)
                               ELSE LET deserialized ==
                                            U_deserialize(Slice(buf_data, pos_data,
                                                                pos_data + deserialized_size))
                                    IN  IF ~IsOk(deserialized) THEN deserialized
                                        ELSE loop(pos_size + SizeOfU32,
                                                  pos_data + deserialized_size,
                                                  Append(all_deserialized, deserialized.val))
              IN  loop(0, 0, <<>>)

\* T::deserialize with that Vec<T> impl
T_deserialize_vec_stops_short(T, buf) ==
    CASE T.k = "Vec<u8>" -> Vec_u8_deserialize(buf)
      [] T.k = "CallData" -> CallData_deserialize(buf)
      [] T.k = "Transaction" -> Transaction_deserialize(buf)
      [] T.k = "Option" -> Option_deserialize(LAMBDA b : T_deserialize(T.of, b), buf)
      [] T.k = "Tuple2" ->
             Tuple2_deserialize(LAMBDA b : T_deserialize(T.t1, b),
                                LAMBDA b : T_deserialize(T.t2, b), buf)
      [] T.k = "Tuple3" ->
             Tuple3_deserialize(LAMBDA b : T_deserialize(T.t1, b),
                                LAMBDA b : T_deserialize(T.t2, b),
                                LAMBDA b : T_deserialize(T.t3, b), buf)
      [] T.k = "Vec" -> Vec_deserialize_stops_short(LAMBDA b : T_deserialize(T.of, b), buf)

\* T::deserialize with the lenient (T1, T2) impl
T_deserialize_lenient_tuple(T, buf) ==
    CASE T.k = "Vec<u8>" -> Vec_u8_deserialize(buf)
      [] T.k = "CallData" -> CallData_deserialize(buf)
      [] T.k = "Transaction" -> Transaction_deserialize(buf)
      [] T.k = "Option" -> Option_deserialize(LAMBDA b : T_deserialize(T.of, b), buf)
      [] T.k = "Tuple2" ->
             Tuple2_deserialize_lenient(LAMBDA b : T_deserialize(T.t1, b),
                                        LAMBDA b : T_deserialize(T.t2, b), buf)
      [] T.k = "Tuple3" ->
             Tuple3_deserialize(LAMBDA b : T_deserialize(T.t1, b),
                                LAMBDA b : T_deserialize(T.t2, b),
                                LAMBDA b : T_deserialize(T.t3, b), buf)
      [] T.k = "Vec" -> Vec_deserialize(LAMBDA b : T_deserialize(T.of, b), buf)

\* T::deserialize(buf)
T_deserialize(T, buf) ==
    CASE T.k = "Vec<u8>" -> Vec_u8_deserialize(buf)
      [] T.k = "CallData" -> CallData_deserialize(buf)
      [] T.k = "Transaction" -> Transaction_deserialize(buf)
      [] T.k = "Option" -> Option_deserialize(LAMBDA b : T_deserialize(T.of, b), buf)
      [] T.k = "Tuple2" ->
             Tuple2_deserialize(LAMBDA b : T_deserialize(T.t1, b),
                                LAMBDA b : T_deserialize(T.t2, b), buf)
      [] T.k = "Tuple3" ->
             Tuple3_deserialize(LAMBDA b : T_deserialize(T.t1, b),
                                LAMBDA b : T_deserialize(T.t2, b),
                                LAMBDA b : T_deserialize(T.t3, b), buf)
      [] T.k = "Vec" -> Vec_deserialize(LAMBDA b : T_deserialize(T.of, b), buf)

\* ------------------------------ the borsh-backed crate: Block::try_from
\* the failure of a borsh read (std::io::Error)
IoError == Err("io")

\* borsh of a Vec<u8>: the length as 4 little-endian bytes, then the bytes
Borsh_vec_u8(v) == to_le_bytes(Len(v), 4) \o v

\* borsh read of a Vec<u8> at pos: the bytes and the position after them
Borsh_read_vec_u8(bs, pos) ==
    IF Len(bs) < pos + 4 THEN IoError
    ELSE let(from_le_bytes(Slice(bs, pos, pos + 4)), LAMBDA len :
             IF Len(bs) < pos + 4 + len THEN IoError
             ELSE Ok([v |-> Slice(bs, pos + 4, pos + 4 + len), pos |-> pos + 4 + len]))

\* #[derive(BorshSerialize)] of Transaction: the fields in declaration order
Borsh_Transaction_serialize(msg) ==
    msg.from_address \o msg.to_address \o to_le_bytes(msg.value, 8)
        \o to_le_bytes(msg.tip, 8) \o to_le_bytes(msg.gas_limit, 8)
        \o to_le_bytes(msg.gas_price, 8) \o Borsh_vec_u8(msg.data)
        \o to_le_bytes(msg.n_txs_on_chain_from_address, 8) \o msg.hash \o msg.signature

\* Transaction::deserialize of the borsh-backed crate: T::try_from_slice reads
\* the fields in declaration order and fails when bytes are left over
Borsh_Transaction_deserialize(bs) ==
    IF Len(bs) < 96 THEN IoError
    ELSE let(Borsh_read_vec_u8(bs, 96), LAMBDA data :
             IF ~IsOk(data) THEN IoError
             ELSE IF Len(bs) # data.val.pos + 8 + 32 + 64 THEN IoError
             ELSE Ok([from_address |-> Slice(bs, 0, 32),
                      to_address |-> Slice(bs, 32, 64),
                      value |-> from_le_bytes(Slice(bs, 64, 72)),
                      tip |-> from_le_bytes(Slice(bs, 72, 80)),
                      gas_limit |-> from_le_bytes(Slice(bs, 80, 88)),
                      gas_price |-> from_le_bytes(Slice(bs, 88, 96)),
                      data |-> data.val.v,
                      n_txs_on_chain_from_address |->
                          from_le_bytes(Slice(bs, data.val.pos, data.val.pos + 8)),
                      hash |-> Slice(bs, data.val.pos + 8, data.val.pos + 40),
                      signature |-> Slice(bs, data.val.pos + 40, data.val.pos + 104)]))

\* #[derive(BorshSerialize)] of Event
Borsh_Event_serialize(msg) == Borsh_vec_u8(msg.topic) \o Borsh_vec_u8(msg.value)

\* #[derive(BorshSerialize)] of Receipt; the status code is written as its byte
Borsh_Receipt_serialize(msg) ==
    <<ReceiptStatusCode_into(msg.status_code)>> \o to_le_bytes(msg.gas_consumed, 8)
        \o Borsh_vec_u8(msg.return_value) \o to_le_bytes(Len(msg.events), 4)
        \o Concat([k \in 1..Len(msg.events) |-> Borsh_Event_serialize(msg.events[k])])

RECURSIVE Borsh_read_events(_, _, _, _)
\* borsh read of the count Events left of a Vec<Event> at pos
Borsh_read_events(bs, pos, count, events) ==
    IF count = 0 THEN Ok([v |-> events, pos |-> pos])
    ELSE let(Borsh_read_vec_u8(bs, pos), LAMBDA topic :
             IF ~IsOk(topic) THEN IoError
             ELSE let(Borsh_read_vec_u8(bs, topic.val.pos), LAMBDA value :
                      IF ~IsOk(value) THEN IoError
                      ELSE Borsh_read_events(
                               bs, value.val.pos, count - 1,
                               Append(events, [topic |-> topic.val.v,
                                               value |-> value.val.v]))))

\* Receipt::deserialize of the borsh-backed crate
Borsh_Receipt_deserialize(bs) ==
    IF Len(bs) < 1 THEN IoError
    ELSE IF ~IsOk(ReceiptStatusCode_try_from(bs[1])) THEN IoError
    ELSE IF Len(bs) < 9 THEN IoError
    ELSE let(Borsh_read_vec_u8(bs, 9), LAMBDA return_value :
             IF ~IsOk(return_value) THEN IoError
             ELSE IF Len(bs) < return_value.val.pos + 4 THEN IoError
             ELSE let(Borsh_read_events(
                          bs, return_value.val.pos + 4,
                          from_le_bytes(Slice(bs, return_value.val.pos,
                                              return_value.val.pos + 4)), <<>>),
                      LAMBDA events :
                      IF ~IsOk(events) THEN IoError
                      ELSE IF events.val.pos # Len(bs) THEN IoError
                      ELSE Ok([status_code |-> ReceiptStatusCode_try_from(bs[1]).val,
                               gas_consumed |-> from_le_bytes(Slice(bs, 1, 9)),
                               return_value |-> return_value.val.v,
                               events |-> events.val.v])))

\* Block::NUM_SLOTS and the slot indexes
NUM_SLOTS == 5
VERSION_SLOT == 0
TIMESTAMP_SLOT == 1
TXS_HASH_SLOT == 2
STATE_HASH_SLOT == 3
RECEIPTS_HASH_SLOT == 4

TryFromHotStuffBlockError ==
    {"WrongNumberOfSlots", "WrongVersionNumberLength", "WrongTimestampLength",
     "WrongTxsHashLength", "WrongStateHashLength", "WrongReceiptsHashLength",
     "WronglySerializedTransaction", "WronglyAuthenticatedTransaction", "WrongReceipt"}

RECURSIVE try_from_transactions(_, _)
\* for txn_bs in txns_bs { ... }: the transactions, or the first failure
try_from_transactions(txns_bs, transactions) ==
    IF txns_bs = <<>> THEN Ok(transactions)
    ELSE let(Borsh_Transaction_deserialize(Head(txns_bs)), LAMBDA txn :
             IF ~IsOk(txn) THEN Err("WronglySerializedTransaction")
             \* txn.try_into() of a Transaction into a Transaction does not fail
             ELSE try_from_transactions(Tail(txns_bs), Append(transactions, txn.val)))

RECURSIVE try_from_receipts(_, _)
\* for receipt_bs in receipts_bs { ... }: the receipts, or the first failure
try_from_receipts(receipts_bs, receipts) ==
    IF receipts_bs = <<>> THEN Ok(receipts)
    ELSE let(Borsh_Receipt_deserialize(Head(receipts_bs)), LAMBDA receipt :
             IF ~IsOk(receipt) THEN Err("WrongReceipt")
             ELSE try_from_receipts(Tail(receipts_bs), Append(receipts, receipt.val)))

\* the part of try_from after the slot count and the header slots were
\* checked; split(n) is the pair of slices taken from n remaining slots
try_from_body(block, split(_)) ==
    LET data == block.data
        header == [app_id |-> block.app_id, hash |-> block.hash, height |-> block.height,
                   justify |-> block.justify, data_hash |-> block.data_hash,
                   version_number |-> from_le_bytes(data[VERSION_SLOT + 1]),
                   timestamp |-> from_le_bytes(data[TIMESTAMP_SLOT + 1]),
                   txs_hash |-> data[TXS_HASH_SLOT + 1],
                   state_hash |-> data[STATE_HASH_SLOT + 1],
                   receipts_hash |-> data[RECEIPTS_HASH_SLOT + 1]]
        num_remaining_slots == Len(data) - NUM_SLOTS
    IN  let(split(num_remaining_slots), LAMBDA slices :
        IF ~IsOk(slices) THEN slices
        ELSE let(try_from_transactions(slices.val[1], <<>>), LAMBDA transactions :
                 IF ~IsOk(transactions) THEN transactions
                 ELSE let(try_from_receipts(slices.val[2], <<>>), LAMBDA receipts :
                          IF ~IsOk(receipts) THEN receipts
                          ELSE Ok([header |-> header, transactions |-> transactions.val,
                                   receipts |-> receipts.val]))))

\* the slot count and the lengths of the five header slots, as try_from
\* checks them in order: the failure, or Ok
try_from_header_slots(data) ==
    IF Len(data) < NUM_SLOTS THEN Err("WrongNumberOfSlots")
    ELSE IF Len(data[VERSION_SLOT + 1]) # 8 THEN Err("WrongVersionNumberLength")
    ELSE IF Len(data[TIMESTAMP_SLOT + 1]) # 4 THEN Err("WrongTimestampLength")
    ELSE IF Len(data[TXS_HASH_SLOT + 1]) # 32 THEN Err("WrongTxsHashLength")
    ELSE IF Len(data[STATE_HASH_SLOT + 1]) # 32 THEN Err("WrongStateHashLength")
    ELSE IF Len(data[RECEIPTS_HASH_SLOT + 1]) # 32 THEN Err("WrongReceiptsHashLength")
    ELSE Ok(data)

\* try_from that halves the remaining slots without looking at their parity
Block_try_from_parity_unchecked(block) ==
    IF ~IsOk(try_from_header_slots(block.data)) THEN try_from_header_slots(block.data)
    ELSE try_from_body(block, LAMBDA num_remaining_slots :
             Ok(<<Slice(block.data, NUM_SLOTS, NUM_SLOTS + (num_remaining_slots \div 2)),
                  SliceFrom(block.data, NUM_SLOTS + (num_remaining_slots \div 2))>>))

\* impl TryFrom<hotstuff_rs_types::messages::Block> for Block
Block_try_from(block) ==
    IF ~IsOk(try_from_header_slots(block.data)) THEN try_from_header_slots(block.data)
    ELSE try_from_body(block, LAMBDA num_remaining_slots :
             IF num_remaining_slots % 2 # 0 THEN Err("WrongNumberOfSlots")
             ELSE Ok(<<Slice(block.data, NUM_SLOTS,
                             NUM_SLOTS + (num_remaining_slots \div 2)),
                       SliceFrom(block.data, NUM_SLOTS + (num_remaining_slots \div 2))>>))

\* ------------------------------------------------------------ sample values
\* n bytes s+1, s+2, ... (every position differs from its neighbours)
Arr(n, s) == [i \in 1..n |-> (s + i) % 256]

\* all sequences over S of length at most n
SeqsUpTo(S, n) == UNION {[1..k -> S] : k \in 0..n}

ByteStrings == {Arr(n, s) : n \in 0..MaxLen, s \in {0, 200}}
SmallStrings == {Arr(n, 0) : n \in 0..MaxLen}

Tx(k, d) ==
    [from_address |-> Arr(32, k), to_address |-> Arr(32, k + 40), value |-> k,
     tip |-> k + 256, gas_limit |-> 3 * k + 65536, gas_price |-> 4, data |-> d,
     n_txs_on_chain_from_address |-> 5 + k, hash |-> Arr(32, k + 80),
     signature |-> Arr(64, k + 120)]

\* lib.rs test_transaction: 100 bytes of data
Data100 == [i \in 1..100 |-> 2]

Transactions == {Tx(k, d) : k \in {1, 2}, d \in ByteStrings \cup {Data100}}

Events == {[topic |-> t, value |-> v] : t \in SmallStrings, v \in {<<>>, <<6, 2, 3>>}}

EventLists == SeqsUpTo({[topic |-> <<>>, value |-> <<>>],
                        [topic |-> <<10, 20>>, value |-> <<6>>]}, MaxEvents)

Receipts ==
    {[status_code |-> c, gas_consumed |-> 102, return_value |-> rv, events |-> es] :
        c \in ReceiptStatusCodes, rv \in {<<>>, Arr(MaxLen, 0)}, es \in EventLists}

Header(k) ==
    [blockchain_id |-> k, block_version_number |-> k + 1, timestamp |-> k + 70000,
     prev_block_hash |-> Arr(32, 1), this_block_hash |-> Arr(32, 2),
     txs_hash |-> Arr(32, 3), state_hash |-> Arr(32, 4), receipts_hash |-> Arr(32, 6),
     proposer_public_key |-> Arr(32, 7), signature |-> Arr(64, 8)]

BlockHeaders == {Header(k) : k \in {1, 300}}

\* the transaction lists of the sample Blocks: the first n of t1, t2, t1, ...
BlockTxs ==
    {[i \in 1..n |-> IF i % 2 = 1 THEN Tx(1, <<>>) ELSE Tx(2, Arr(MaxLen, 0))] :
        n \in 0..MaxTxs}

\* the receipt lists of the sample Blocks: the first n of r1, r2, r1, ...
BlockReceipts ==
    {[i \in 1..n |->
         IF i % 2 = 1
         THEN [status_code |-> "Success", gas_consumed |-> 1, return_value |-> <<>>,
               events |-> <<>>]
         ELSE [status_code |-> "Else", gas_consumed |-> 2,
               return_value |-> Arr(MaxLen, 0),
               events |-> <<[topic |-> <<10, 20>>, value |-> <<6>>]>>]] :
        n \in 0..MaxReceipts}

Blocks ==
    {[header |-> Header(1), transactions |-> ts, receipts |-> rs] :
        ts \in BlockTxs, rs \in BlockReceipts}

\* MerkleProof values; total_leaves_count and the leaf indices are machine
\* words, some of them beyond the range of 32 bits
MerkleProofs ==
    {[root_hash |-> Arr(32, 5), total_leaves_count |-> tl, leaf_indices |-> li,
      leaf_hashes |-> lh, proof |-> pf] :
        tl \in {usize(0, 123), usize(1, 123)},
        li \in SeqsUpTo({usize(0, 0), usize(0, 70000), usize(1, 4)}, MaxLeaves),
        lh \in SeqsUpTo({Arr(32, 9), Arr(32, 50)}, MaxLeaves),
        pf \in SmallStrings}

StateProofItems ==
    {<<Arr(3, 20), None>>, <<Arr(3, 20), Some(<<>>)>>, <<<<>>, Some(Arr(MaxLen, 30))>>}

StateProofsValues ==
    {[root_hash |-> Arr(32, 11), items |-> it, proof |-> pf] :
        it \in SeqsUpTo(StateProofItems, MaxLeaves),
        pf \in SeqsUpTo({<<>>, Arr(MaxLen, 56)}, MaxLeaves)}

\* method names: "", "c", "cd", "e-acute" (a two-byte character)
MethodNames == {n \in {<<>>, <<99>>, <<99, 100>>, <<195, 169>>} : Len(n) <= MaxLen}

CallDatas == {[method_name |-> m, arguments |-> a] : m \in MethodNames, a \in ByteStrings}

ParamsFromTransactions ==
    {[from_address |-> Arr(32, k), to_address |-> Arr(32, k + 1), value |-> 99,
      data |-> d, transaction_hash |-> Arr(32, k + 3)] : k \in {0, 9}, d \in ByteStrings}

ParamsFromBlockchains ==
    {[this_block_number |-> n, prev_block_hash |-> Arr(32, 99), timestamp |-> 111110,
      random_bytes |-> Arr(32, 255)] : n \in {0, 123, 65537}}

ContractDeployments ==
    {[contract_code |-> c, contract_init_arguments |-> a] :
        c \in ByteStrings, a \in SmallStrings}

\* lib.rs test_generics: the generic types that are encoded and decoded
GenericTypes ==
    {TBytes, TOption(TBytes), TOption(TOption(TBytes)),
     TTuple2(TBytes, TOption(TBytes)), TOption(TTuple2(TBytes, TOption(TBytes))),
     TTuple3(TBytes, TOption(TBytes), TVec(TBytes)),
     TVec(TBytes), TVec(TVec(TBytes)), TVec(TTuple2(TBytes, TOption(TBytes))),
     TTuple2(TCallData, TOption(TVec(TBytes))),
     TTuple3(TOption(TBytes), TCallData, TBytes),
     TOption(TCallData), TVec(TOption(TBytes)), TVec(TTransaction)}

RECURSIVE ValuesOf(_)
\* sample values of a type; a list is x, y, x, ... of up to MaxLeaves elements
ValuesOf(T) ==
    CASE T.k = "Vec<u8>" -> {<<>>, Arr(MaxLen, 7)}
      [] T.k = "CallData" ->
             {[method_name |-> <<99>>, arguments |-> <<>>],
              [method_name |-> <<195, 169>>, arguments |-> Arr(MaxLen, 3)]}
      [] T.k = "Transaction" -> {Tx(1, <<>>), Tx(2, Arr(MaxLen, 0))}
      [] T.k = "Option" -> {None} \cup {Some(x) : x \in ValuesOf(T.of)}
      [] T.k = "Tuple2" -> {<<a, b>> : a \in ValuesOf(T.t1), b \in ValuesOf(T.t2)}
      [] T.k = "Tuple3" ->
             {<<a, b, c>> : a \in ValuesOf(T.t1), b \in ValuesOf(T.t2),
                            c \in ValuesOf(T.t3)}
      [] T.k = "Vec" ->
             {[i \in 1..n |-> IF i % 2 = 1 THEN x ELSE y] :
                 x \in ValuesOf(T.of), y \in ValuesOf(T.of), n \in 0..MaxLeaves}

\* values of the deprecated wrapper Transactions
TransactionLists == {[transactions |-> ts] : ts \in BlockTxs}

\* values of the deprecated wrapper Blocks
BlockLists ==
    {[blocks |-> bs] :
        bs \in SeqsUpTo({[header |-> Header(1), transactions |-> <<>>, receipts |-> <<>>],
                         [header |-> Header(300), transactions |-> <<Tx(1, <<>>)>>,
                          receipts |-> <<[status_code |-> "Success", gas_consumed |-> 1,
                                          return_value |-> <<>>, events |-> <<>>]>>]},
                        MaxCalls)}

\* the five header slots of a consensus-layer block, with the right lengths
HeaderSlots == <<to_le_bytes(2, 8), to_le_bytes(70001, 4), Arr(32, 3), Arr(32, 4), Arr(32, 6)>>

\* data slots that hold a Transaction, a Receipt, or neither
TxSlots == {Borsh_Transaction_serialize(Tx(1, <<>>)),
            Borsh_Transaction_serialize(Tx(2, Arr(MaxLen, 0))), <<1, 2, 3>>}
ReceiptSlots ==
    {Borsh_Receipt_serialize([status_code |-> "Success", gas_consumed |-> 1,
                              return_value |-> <<>>, events |-> <<>>]),
     Borsh_Receipt_serialize([status_code |-> "Else", gas_consumed |-> 2,
                              return_value |-> Arr(MaxLen, 0),
                              events |-> <<[topic |-> <<10, 20>>, value |-> <<6>>]>>]),
     <<255>>}

\* consensus-layer blocks: the header slots all there and rightly sized,
\* or one of them one byte short, or only the first few of them; then up to
\* MaxTxs transaction slots and up to MaxReceipts receipt slots
HotStuffBlocks ==
    {[app_id |-> 1, hash |-> Arr(32, 2), height |-> 7, justify |-> <<>>,
      data_hash |-> Arr(32, 9), data |-> d] :
        d \in {HeaderSlots \o ts \o rs :
                  ts \in SeqsUpTo(TxSlots, MaxTxs), rs \in SeqsUpTo(ReceiptSlots, MaxReceipts)}
              \cup {[HeaderSlots EXCEPT ![i] = Tail(@)] \o ts \o rs :
                       i \in 1..NUM_SLOTS, ts \in SeqsUpTo(TxSlots, 1),
                       rs \in SeqsUpTo(ReceiptSlots, 1)}
              \cup {SubSeq(HeaderSlots, 1, n) : n \in 0..(NUM_SLOTS - 1)}}

\* the entity types with a decoder
Entities ==
    {"Transaction", "Event", "Receipt", "BlockHeader", "Block", "MerkleProof",
     "StateProofs", "CallData", "ParamsFromTransaction", "ParamsFromBlockchain",
     "TransactionDataContractDeployment"}

\* byte lengths of a payload (msg.data.len(), tx_data.len(), ...), as machine
\* words: lengths the byte-level values above have, and lengths of 4 GiB and more
PayloadLengths ==
    {usize(0, 0), usize(0, MaxLen), usize(0, 100), usize(0, 70000),
     usize(1, 0), usize(1, MaxLen)}

Values(e) ==
    CASE e = "Transaction" -> Transactions
      [] e = "Event" -> Events
      [] e = "Receipt" -> Receipts
      [] e = "BlockHeader" -> BlockHeaders
      [] e = "Block" -> Blocks
      [] e = "MerkleProof" -> MerkleProofs
      [] e = "StateProofs" -> StateProofsValues
      [] e = "CallData" -> CallDatas
      [] e = "ParamsFromTransaction" -> ParamsFromTransactions
      [] e = "ParamsFromBlockchain" -> ParamsFromBlockchains
      [] e = "TransactionDataContractDeployment" -> ContractDeployments
      [] e = "ReceiptStatusCode" -> ReceiptStatusCodes
      [] e = "PayloadLength" -> PayloadLengths
      [] e = "Transactions" -> TransactionLists
      [] e = "Blocks" -> BlockLists
      [] e = "HotStuffBlock" -> HotStuffBlocks

\* T::serialize of the entities that encode in one thread
Serialize(e, v) ==
    CASE e = "Transaction" -> Transaction_serialize(v)
      [] e = "Event" -> Event_serialize(v)
      [] e = "Receipt" -> Receipt_serialize(v)
      [] e = "BlockHeader" -> BlockHeader_serialize(v)
      [] e = "MerkleProof" -> MerkleProof_serialize(v)
      [] e = "StateProofs" -> StateProofs_serialize(v)
      [] e = "CallData" -> CallData_serialize(v)
      [] e = "ParamsFromTransaction" -> ParamsFromTransaction_serialize(v)
      [] e = "ParamsFromBlockchain" -> ParamsFromBlockchain_serialize(v)
      [] e = "TransactionDataContractDeployment" ->
             TransactionDataContractDeployment_serialize(v)

\* T::deserialize of the entities that decode in one thread
Deserialize(e, b) ==
    CASE e = "Transaction" -> Transaction_deserialize(b)
      [] e = "Event" -> Event_deserialize(b)
      [] e = "Receipt" -> Receipt_deserialize(b)
      [] e = "BlockHeader" -> BlockHeader_deserialize(b)
      [] e = "MerkleProof" -> MerkleProof_deserialize(b)
      [] e = "StateProofs" -> StateProofs_deserialize(b)
      [] e = "CallData" -> CallData_deserialize(b)
      [] e = "ParamsFromTransaction" -> ParamsFromTransaction_deserialize(b)
      [] e = "ParamsFromBlockchain" -> ParamsFromBlockchain_deserialize(b)
      [] e = "TransactionDataContractDeployment" ->
             TransactionDataContractDeployment_deserialize(b)

\* length of the fixed prefix of an entity's encoding
BaseSize(e) ==
    CASE e = "Transaction" -> fmt_transaction_BASESIZE
      [] e = "Event" -> fmt_event_BASESIZE
      [] e = "Receipt" -> fmt_receipt_BASESIZE
      [] e = "BlockHeader" -> fmt_blockheader_BASESIZE
      [] e = "Block" -> fmt_blockheader_BASESIZE + fmt_sizes_BASESIZE
      [] e = "MerkleProof" -> fmt_merkleproof_BASESIZE
      [] e = "StateProofs" -> 32 + 2 * SizeOfU32
      [] e = "CallData" -> fmt_calldata_BASESIZE
      [] e = "ParamsFromTransaction" -> fmt_paramsfromtransaction_BASESIZE
      [] e = "ParamsFromBlockchain" -> fmt_paramsfromblockchain_BASESIZE
      [] e = "TransactionDataContractDeployment" ->
             fmt_transactiondata_contractdeployment_BASESIZE

\* ------------------------------------------------------------------- state
VARIABLES
    ent,        \* the entity type being encoded and decoded
    val,        \* the in-memory value handed to encode
    outs,       \* the byte vectors returned by the encode calls on val, in order
    buf,        \* the bytes handed to decode (the first encoding, as received)
    res,        \* what decode returned: Ok(v), Err(kind), Panic, or "none" before
    phase,      \* "new", "encoded" (encode returned), "decoded" (decode returned)
    ser,        \* Block::serialize, calling thread: pc and locals
    ser_tx,     \* Block::serialize, transaction worker thread
    ser_recp,   \* Block::serialize, receipt worker thread
    de,         \* Block::deserialize, calling thread: pc and locals
    de_tx,      \* Block::deserialize, transaction worker thread
    de_recp,    \* Block::deserialize, receipt worker thread
    order       \* history: per Block::serialize call, the worker that ended first

vars == <<ent, val, outs, buf, res, phase, ser, ser_tx, ser_recp, de, de_tx, de_recp, order>>

ser_vars == <<ser, ser_tx, ser_recp, order>>
de_vars == <<de, de_tx, de_recp>>

NoResult == [tag |-> "none"]

SerIdle == [pc |-> "idle", raw_blockheader |-> <<>>, tx_data |-> <<>>, recp_data |-> <<>>]
SerWorkerIdle == [pc |-> "idle", i |-> 0, pos |-> 0, return_slice |-> <<>>]
DeIdle == [pc |-> "idle", blockheader |-> <<>>, raw_transactions |-> <<>>,
           raw_receipts |-> <<>>, transactions |-> <<>>]
DeWorkerIdle == [pc |-> "idle", raw |-> <<>>, pos |-> 0, items |-> <<>>,
                 result |-> NoResult]

Init ==
    /\ ent \in Entities \cup {"ReceiptStatusCode", "Generic", "PayloadLength",
                              "Transactions", "Blocks", "HotStuffBlock"}
    /\ IF ent = "Generic"
       THEN \E T \in GenericTypes : \E x \in ValuesOf(T) : val = [ty |-> T, v |-> x]
       ELSE val \in Values(ent)
    /\ outs = <<>>
    /\ buf = <<>>
    /\ res = NoResult
    /\ phase = "new"
    /\ ser = SerIdle
    /\ ser_tx = SerWorkerIdle
    /\ ser_recp = SerWorkerIdle
    /\ de = DeIdle
    /\ de_tx = DeWorkerIdle
    /\ de_recp = DeWorkerIdle
    /\ order = <<>>

\* --------------------------------------------- encode, single-threaded types
\* T::serialize(&val) for every entity but Block
Encode ==
    /\ phase = "new"
    /\ ent \in Entities \ {"Block"}
    /\ outs' = <<Serialize(ent, val)>>
    /\ buf' = Serialize(ent, val)
    /\ phase' = "encoded"
    /\ UNCHANGED <<ent, val, res, ser_vars, de_vars>>

\* ------------------------------------------------------- the wire (inputs)
\* the received buffer is still the first encoding, and decode has not begun
Pristine ==
    /\ phase = "encoded"
    /\ Len(outs) = 1
    /\ buf = outs[1]
    /\ ser.pc = "idle"
    /\ de.pc = "idle"

\* lengths a received buffer is cut to: empty, fixed prefix only, last byte lost
CutPoints(e, b) ==
    {n \in {0, BaseSize(e) - 1, BaseSize(e), fmt_blockheader_BASESIZE, Len(b) - 1} :
        0 <= n /\ n < Len(b)}

\* bytes that follow a complete encoding in a received buffer
Tails == {<<0>>, Zeros(fmt_event_BASESIZE), Zeros(fmt_receipt_BASESIZE)}

\* offsets of the low byte of the size fields of an encoding
SizeOffsets(e, b) ==
    CASE e = "Transaction" -> {fmt_transaction.DATASIZE[2]}
      [] e = "Event" -> {fmt_event.TOPICSIZE[2], fmt_event.VALUESIZE[2]}
      [] e = "Receipt" -> {fmt_receipt.RETURNVALSIZE[2], fmt_receipt.EVENTSSIZE[2]}
      [] e = "MerkleProof" -> {fmt_merkleproof.LEAFINDSIZE[2], fmt_merkleproof.LEAFHASHSIZE[2],
                               fmt_merkleproof.PROOFSIZE[2]}
      [] e = "StateProofs" -> {32, 36, 40}
      [] e = "CallData" -> {fmt_calldata.METHOD_SIZE[2], fmt_calldata.ARGS_SIZE[2]}
      [] e = "ParamsFromTransaction" -> {fmt_paramsfromtransaction.DATASIZE[2]}
      [] e = "TransactionDataContractDeployment" ->
             {fmt_transactiondata_contractdeployment.CODESIZE[2],
              fmt_transactiondata_contractdeployment.ARGSSIZE[2]}
      [] e = "Block" ->
             \* the two list lengths, and the size fields of the last
             \* transaction and of the last receipt
             LET ntx == Len(val.transactions)
                 nrc == Len(val.receipts)
                 txs == BaseSize("Block")
                 rcs == txs + deserialize_u32(b, <<4, fmt_blockheader_BASESIZE>>)
                 last_tx == txs + Len(Concat([k \in 1..(ntx - 1) |->
                                        Transaction_serialize(val.transactions[k])]))
                 last_rc == rcs + Len(Concat([k \in 1..(nrc - 1) |->
                                        Receipt_serialize(val.receipts[k])]))
             IN  {fmt_blockheader_BASESIZE + fmt_sizes.TRANSACTION[2],
                  fmt_blockheader_BASESIZE + fmt_sizes.RECEIPT[2]}
                 \cup (IF ntx > 0 THEN {last_tx + fmt_transaction.DATASIZE[2]} ELSE {})
                 \cup (IF nrc > 0 THEN {last_rc + fmt_receipt.RETURNVALSIZE[2],
                                        last_rc + fmt_receipt.EVENTSSIZE[2]} ELSE {})
      [] OTHER -> {}

\* offsets of status-code bytes of an encoding
StatusOffsets(e, b) ==
    CASE e = "Receipt" -> {fmt_receipt.STATUSCODE[2]}
      [] e = "Block" -> {BaseSize("Block") + deserialize_u32(b, <<4, fmt_blockheader_BASESIZE>>)}
      [] OTHER -> {}

\* offsets of the text bytes of an encoding
TextOffsets(e, b) ==
    IF e = "CallData"
    THEN {fmt_calldata_BASESIZE + k : k \in 0..(Len(val.method_name) - 1)}
    ELSE {}

\* single-byte corruptions <<offset, new byte>> of a received buffer
TamperPoints(e, b) ==
    {p \in (SizeOffsets(e, b) \X {0, 1, 9})
           \cup (StatusOffsets(e, b) \X {1, 10, 255})
           \cup (TextOffsets(e, b) \X {100, 129, 195, 255}) :
        p[1] < Len(b) /\ b[p[1] + 1] # p[2]}

\* the received buffer is a prefix of what was sent: serialized[..n]
Truncate ==
    /\ Pristine
    /\ ent \in Entities
    /\ \E n \in CutPoints(ent, buf) : buf' = Slice(buf, 0, n)
    /\ UNCHANGED <<ent, val, outs, res, phase, ser_vars, de_vars>>

\* the received buffer has bytes after the encoding
Extend ==
    /\ Pristine
    /\ ent \in Entities
    /\ \E t \in Tails : buf' = buf \o t
    /\ UNCHANGED <<ent, val, outs, res, phase, ser_vars, de_vars>>

\* one byte of the received buffer is overwritten: serialized[off] = v
Tamper ==
    /\ Pristine
    /\ ent \in Entities
    /\ \E p \in TamperPoints(ent, buf) : buf' = [buf EXCEPT ![p[1] + 1] = p[2]]
    /\ UNCHANGED <<ent, val, outs, res, phase, ser_vars, de_vars>>

\* one byte in the transaction region and one byte in the receipt region of
\* a received Block are overwritten
TamperTwo ==
    /\ Pristine
    /\ ent = "Block"
    /\ LET rcs == BaseSize("Block") + deserialize_u32(buf, <<4, fmt_blockheader_BASESIZE>>)
       IN  \E p, q \in TamperPoints(ent, buf) :
               /\ BaseSize("Block") <= p[1]
               /\ p[1] < rcs
               /\ rcs <= q[1]
               /\ buf' = [buf EXCEPT ![p[1] + 1] = p[2], ![q[1] + 1] = q[2]]
    /\ UNCHANGED <<ent, val, outs, res, phase, ser_vars, de_vars>>

\* a received Receipt whose status byte was overwritten, and that may also
\* have a size field overwritten and its end cut off
ReceiptCraft ==
    /\ Pristine
    /\ ent = "Receipt"
    /\ \E s \in {1, 255}, q \in SizeOffsets(ent, buf) \X {0, 1, 9},
          n \in {1, fmt_receipt_BASESIZE - 1, fmt_receipt_BASESIZE, Len(buf)} :
           /\ n <= Len(buf)
           /\ buf' = Slice([buf EXCEPT ![fmt_receipt.STATUSCODE[2] + 1] = s,
                                       ![q[1] + 1] = q[2]], 0, n)
    /\ UNCHANGED <<ent, val, outs, res, phase, ser_vars, de_vars>>

\* --------------------------------------------- decode, single-threaded types
\* T::deserialize(&buf) for every entity but Block
Decode ==
    /\ phase = "encoded"
    /\ ent \in Entities \ {"Block"}
    /\ res' = Deserialize(ent, buf)
    /\ phase' = "decoded"
    /\ UNCHANGED <<ent, val, outs, buf, ser_vars, de_vars>>

\* ------------------------------------------------------ ReceiptStatusCode
\* let byte: u8 = code.into(); the byte is carried as a one-byte buffer
StatusInto ==
    /\ ent = "ReceiptStatusCode"
    /\ phase = "new"
    /\ outs' = << <<ReceiptStatusCode_into(val)>> >>
    /\ buf' = <<ReceiptStatusCode_into(val)>>
    /\ phase' = "encoded"
    /\ UNCHANGED <<ent, val, res, ser_vars, de_vars>>

\* any u8 may be handed to try_from
StatusByte ==
    /\ ent = "ReceiptStatusCode"
    /\ Pristine
    /\ \E b \in 0..255 : b # buf[1] /\ buf' = <<b>>
    /\ UNCHANGED <<ent, val, outs, res, phase, ser_vars, de_vars>>

\* ReceiptStatusCode::try_from(byte)
StatusTryFrom ==
    /\ ent = "ReceiptStatusCode"
    /\ phase = "encoded"
    /\ res' = ReceiptStatusCode_try_from(buf[1])
    /\ phase' = "decoded"
    /\ UNCHANGED <<ent, val, outs, buf, ser_vars, de_vars>>

\* ------------------------------------------------------------ size fields
\* (msg.data.len() as u32).to_le_bytes(): the size field written for a payload
\* of val bytes
SizeFieldWrite ==
    /\ ent = "PayloadLength"
    /\ phase = "new"
    /\ outs' = <<to_le_bytes(as_u32(val), 4)>>
    /\ buf' = to_le_bytes(as_u32(val), 4)
    /\ phase' = "encoded"
    /\ UNCHANGED <<ent, val, res, ser_vars, de_vars>>

\* deserialize_u32!(buf, DATASIZE) as usize: the payload length a decoder
\* takes from the size field
SizeFieldRead ==
    /\ ent = "PayloadLength"
    /\ phase = "encoded"
    /\ res' = Ok(as_usize(deserialize_u32(buf, <<4, 0>>)))
    /\ phase' = "decoded"
    /\ UNCHANGED <<ent, val, outs, buf, ser_vars, de_vars>>

\* ---------------------------------------------------------- generic types
\* T::serialize(&val.v) of a generic type
GenericEncode ==
    /\ ent = "Generic"
    /\ phase = "new"
    /\ outs' = <<T_serialize(val.ty, val.v)>>
    /\ buf' = T_serialize(val.ty, val.v)
    /\ phase' = "encoded"
    /\ UNCHANGED <<ent, val, res, ser_vars, de_vars>>

\* T::deserialize(&buf) of a generic type
GenericDecode ==
    /\ ent = "Generic"
    /\ phase = "encoded"
    /\ res' = T_deserialize(val.ty, buf)
    /\ phase' = "decoded"
    /\ UNCHANGED <<ent, val, outs, buf, ser_vars, de_vars>>

\* byte strings that the decoder of T rejects
BadParts(T) ==
    CASE T.k = "CallData" ->
             {CallData_serialize([method_name |-> <<255>>, arguments |-> <<>>])}
      [] T.k = "Option" -> {<<>>}
      [] T.k = "Vec" -> {<<>>}
      [] OTHER -> {}

\* candidate bytes for an element of a tuple: its encoding, or a rejected one
Parts(T, x) == {T_serialize(T, x)} \cup BadParts(T)

\* a length prefix that is off by d, and at least 0
Declared(part, d) == to_le_bytes(IF Len(part) + d < 0 THEN 0 ELSE Len(part) + d, 4)

Deltas == {-1, 0, 1}

\* buffers handed to a tuple decoder: length prefixes that match the parts or
\* are off by one, and buffers cut inside the length prefixes
Crafted(T, v) ==
    LET enc == T_serialize(T, v)
        n == IF T.k = "Tuple2" THEN 2 ELSE 3
        cuts == {Slice(enc, 0, c) : c \in {0, n * SizeOfU32 - 1}}
    IN  IF T.k = "Tuple2"
        THEN cuts \cup
             {Declared(p1, d1) \o Declared(p2, d2) \o p1 \o p2 :
                 p1 \in Parts(T.t1, v[1]), p2 \in Parts(T.t2, v[2]),
                 d1 \in Deltas, d2 \in Deltas}
        ELSE cuts \cup
             {Declared(p1, d1) \o Declared(p2, d2) \o Declared(p3, d3) \o p1 \o p2 \o p3 :
                 p1 \in Parts(T.t1, v[1]), p2 \in Parts(T.t2, v[2]),
                 p3 \in Parts(T.t3, v[3]),
                 d1 \in Deltas, d2 \in Deltas, d3 \in Deltas}

\* the bytes received for a tuple are not the ones that were sent
GenericCraft ==
    /\ ent = "Generic"
    /\ phase = "encoded"
    /\ buf = outs[1]
    /\ val.ty.k \in {"Tuple2", "Tuple3"}
    /\ \E b \in Crafted(val.ty, val.v) : b # buf /\ buf' = b
    /\ UNCHANGED <<ent, val, outs, res, phase, ser_vars, de_vars>>

\* byte values written over a byte of a received buffer
TamperBytes == {0, 1, 2, 255}

\* buffers derived from an encoding: a proper prefix, one more byte at the
\* end, or one byte overwritten, the changes being within the first
\* CorruptSpan bytes or at the very end
Corrupted(enc) ==
    LET head == IF Len(enc) < CorruptSpan THEN Len(enc) ELSE CorruptSpan
    IN  {Slice(enc, 0, c) : c \in (0..(head - 1)) \cup {Len(enc) - 1}}
            \cup {enc \o <<t>> : t \in {0, 7}}
            \cup {[enc EXCEPT ![i] = t] : i \in 1..head, t \in TamperBytes}

\* the bytes received for an optional value or a list are not the ones sent
GenericCorrupt ==
    /\ ent = "Generic"
    /\ phase = "encoded"
    /\ buf = outs[1]
    /\ val.ty.k \in {"Option", "Vec"}
    /\ \E b \in Corrupted(buf) : b # buf /\ buf' = b
    /\ UNCHANGED <<ent, val, outs, res, phase, ser_vars, de_vars>>

\* ------------------------------------------------------- Block::serialize
RECURSIVE SumTransactionSizes(_)
\* transactions.iter().map(|t| Transaction::size_of(t)).sum()
SumTransactionSizes(ts) ==
    IF ts = <<>> THEN 0 ELSE Transaction_size_of(Head(ts)) + SumTransactionSizes(Tail(ts))

RECURSIVE SumReceiptSizes(_)
\* receipts.iter().map(|r| Receipt::size_of(r)).sum()
SumReceiptSizes(rs) ==
    IF rs = <<>> THEN 0 ELSE Receipt_size_of(Head(rs)) + SumReceiptSizes(Tail(rs))

\* the value Block::serialize returns: [raw_blockheader, [tx_size, recp_size].concat(),
\* [tx_data, recp_data].concat()].concat()
Block_concat(raw_blockheader, tx_data, recp_data) ==
    LET tx_size == to_le_bytes(Len(tx_data), 4)
        recp_size == to_le_bytes(Len(recp_data), 4)
    IN  Concat(<<raw_blockheader, Concat(<<tx_size, recp_size>>),
                 Concat(<<tx_data, recp_data>>)>>)

\* Block::serialize is entered (first call, or a further call on the same value)
\* and encodes the header
SerHeader ==
    /\ ent = "Block"
    /\ ser.pc = "idle"
    /\ \/ phase = "new"
       \/ phase = "encoded" /\ buf = outs[1] /\ de.pc = "idle" /\ Len(outs) < MaxCalls
    /\ ser' = [ser EXCEPT !.pc = "header",
                          !.raw_blockheader = BlockHeader_serialize(val.header)]
    /\ UNCHANGED <<ent, val, outs, buf, res, phase, ser_tx, ser_recp, de_vars, order>>

\* thread::spawn of the transaction worker
SerSpawnTx ==
    /\ ser.pc = "header"
    /\ ser' = [ser EXCEPT !.pc = "tx_spawned"]
    /\ ser_tx' = [SerWorkerIdle EXCEPT !.pc = "spawned"]
    /\ UNCHANGED <<ent, val, outs, buf, res, phase, ser_recp, de_vars, order>>

\* thread::spawn of the receipt worker
SerSpawnRecp ==
    /\ ser.pc = "tx_spawned"
    /\ ser' = [ser EXCEPT !.pc = "recp_spawned"]
    /\ ser_recp' = [SerWorkerIdle EXCEPT !.pc = "spawned"]
    /\ UNCHANGED <<ent, val, outs, buf, res, phase, ser_tx, de_vars, order>>

\* transaction worker: total_size, return_slice = vec![0u8; total_size], pos = 0
SerTxAlloc ==
    /\ ser_tx.pc = "spawned"
    /\ ser_tx' = [pc |-> "loop", i |-> 1, pos |-> 0,
                  return_slice |-> Zeros(SumTransactionSizes(val.transactions))]
    /\ UNCHANGED <<ent, val, outs, buf, res, phase, ser, ser_recp, de_vars, order>>

\* transaction worker: pos += Transaction::serialize_to_slice(t, &mut return_slice[pos..])
SerTxWrite ==
    /\ ser_tx.pc = "loop"
    /\ ser_tx.i <= Len(val.transactions)
    /\ LET t == val.transactions[ser_tx.i]
           pos == ser_tx.pos
       IN  ser_tx' = [ser_tx EXCEPT
                        !.return_slice =
                            SubSeq(@, 1, pos) \o Transaction_serialize_to_slice(t, SliceFrom(@, pos)),
                        !.pos = pos + Transaction_size_of(t),
                        !.i = @ + 1]
    /\ UNCHANGED <<ent, val, outs, buf, res, phase, ser, ser_recp, de_vars, order>>

\* transaction worker: the closure returns return_slice and the thread ends
SerTxReturn ==
    /\ ser_tx.pc = "loop"
    /\ ser_tx.i > Len(val.transactions)
    /\ ser_tx' = [ser_tx EXCEPT !.pc = "done"]
    /\ order' = IF Len(order) = Len(outs) THEN Append(order, "tx") ELSE order
    /\ UNCHANGED <<ent, val, outs, buf, res, phase, ser, ser_recp, de_vars>>

\* receipt worker: total_size, return_slice = vec![0u8; total_size], pos = 0
SerRecpAlloc ==
    /\ ser_recp.pc = "spawned"
    /\ ser_recp' = [pc |-> "loop", i |-> 1, pos |-> 0,
                    return_slice |-> Zeros(SumReceiptSizes(val.receipts))]
    /\ UNCHANGED <<ent, val, outs, buf, res, phase, ser, ser_tx, de_vars, order>>

\* receipt worker that writes every receipt at the start of return_slice
SerRecpWrite_no_advance ==
    /\ ser_recp.pc = "loop"
    /\ ser_recp.i <= Len(val.receipts)
    /\ LET r == val.receipts[ser_recp.i]
       IN  ser_recp' = [ser_recp EXCEPT
                          !.return_slice = Receipt_serialize_to_slice(r, @),
                          !.i = @ + 1]
    /\ UNCHANGED <<ent, val, outs, buf, res, phase, ser, ser_tx, de_vars, order>>

\* receipt worker: pos += Receipt::serialize_to_slice(r, &mut return_slice[pos..])
SerRecpWrite ==
    /\ ser_recp.pc = "loop"
    /\ ser_recp.i <= Len(val.receipts)
    /\ LET r == val.receipts[ser_recp.i]
           pos == ser_recp.pos
       IN  ser_recp' = [ser_recp EXCEPT
                          !.return_slice =
                              SubSeq(@, 1, pos) \o Receipt_serialize_to_slice(r, SliceFrom(@, pos)),
                          !.pos = pos + Receipt_size_of(r),
                          !.i = @ + 1]
    /\ UNCHANGED <<ent, val, outs, buf, res, phase, ser, ser_tx, de_vars, order>>

\* receipt worker: the closure returns return_slice and the thread ends
SerRecpReturn ==
    /\ ser_recp.pc = "loop"
    /\ ser_recp.i > Len(val.receipts)
    /\ ser_recp' = [ser_recp EXCEPT !.pc = "done"]
    /\ order' = IF Len(order) = Len(outs) THEN Append(order, "recp") ELSE order
    /\ UNCHANGED <<ent, val, outs, buf, res, phase, ser, ser_tx, de_vars>>

\* tx_join_handle.join().unwrap(): blocks until the transaction worker has ended
SerJoinTx ==
    /\ ser.pc = "recp_spawned"
    /\ ser_tx.pc = "done"
    /\ ser' = [ser EXCEPT !.pc = "tx_joined", !.tx_data = ser_tx.return_slice]
    /\ ser_tx' = [ser_tx EXCEPT !.pc = "joined"]
    /\ UNCHANGED <<ent, val, outs, buf, res, phase, ser_recp, de_vars, order>>

\* Block::serialize that takes the receipt buffer without waiting for the
\* receipt worker to end
SerJoinRecp_no_wait ==
    /\ ser.pc = "tx_joined"
    /\ ser_recp.pc \in {"loop", "done"}
    /\ ser' = [ser EXCEPT !.pc = "recp_joined", !.recp_data = ser_recp.return_slice]
    /\ ser_recp' = [ser_recp EXCEPT !.pc = "joined"]
    /\ UNCHANGED <<ent, val, outs, buf, res, phase, ser_tx, de_vars, order>>

\* recp_join_handle.join().unwrap(): blocks until the receipt worker has ended
SerJoinRecp ==
    /\ ser.pc = "tx_joined"
    /\ ser_recp.pc = "done"
    /\ ser' = [ser EXCEPT !.pc = "recp_joined", !.recp_data = ser_recp.return_slice]
    /\ ser_recp' = [ser_recp EXCEPT !.pc = "joined"]
    /\ UNCHANGED <<ent, val, outs, buf, res, phase, ser_tx, de_vars, order>>

\* Block::serialize returns the concatenation
SerReturn ==
    /\ ser.pc = "recp_joined"
    /\ LET out == Block_concat(ser.raw_blockheader, ser.tx_data, ser.recp_data)
       IN  /\ outs' = Append(outs, out)
           /\ buf' = IF outs = <<>> THEN out ELSE buf
    /\ phase' = "encoded"
    /\ ser' = SerIdle
    /\ UNCHANGED <<ent, val, res, ser_tx, ser_recp, de_vars, order>>

\* ----------------------------------------------------- Block::deserialize
\* Block::deserialize is entered: BlockHeader::deserialize(buf)?
DeHeader ==
    /\ ent = "Block"
    /\ phase = "encoded"
    /\ Len(outs) = 1
    /\ ser.pc = "idle"
    /\ de.pc = "idle"
    /\ LET blockheader == BlockHeader_deserialize(buf)
       IN  IF IsOk(blockheader)
           THEN /\ de' = [de EXCEPT !.pc = "header", !.blockheader = blockheader.val]
                /\ UNCHANGED <<res, phase>>
           ELSE /\ res' = blockheader
                /\ phase' = "decoded"
                /\ de' = [de EXCEPT !.pc = "returned"]
    /\ UNCHANGED <<ent, val, outs, buf, ser_vars, de_tx, de_recp>>

\* the two aggregate lengths are read and checked, and the rest is split
DeSizes ==
    /\ de.pc = "header"
    /\ LET buf1 == SliceFrom(buf, fmt_blockheader_BASESIZE)
       IN  IF Len(buf1) < fmt_sizes_BASESIZE
           THEN /\ res' = Err("IncorrectLength")
                /\ phase' = "decoded"
                /\ de' = [de EXCEPT !.pc = "returned"]
           ELSE LET tx_size == deserialize_u32(buf1, fmt_sizes.TRANSACTION)
                    recp_size == deserialize_u32(buf1, fmt_sizes.RECEIPT)
                    buf2 == SliceFrom(buf1, fmt_sizes_BASESIZE)
                IN  IF Len(buf2) < tx_size + recp_size
                    THEN /\ res' = Err("IncorrectLength")
                         /\ phase' = "decoded"
                         /\ de' = [de EXCEPT !.pc = "returned"]
                    \* buf.split_at(tx_size)
                    ELSE /\ de' = [de EXCEPT !.pc = "split",
                                             !.raw_transactions = Slice(buf2, 0, tx_size),
                                             !.raw_receipts = SliceFrom(buf2, tx_size)]
                         /\ UNCHANGED <<res, phase>>
    /\ UNCHANGED <<ent, val, outs, buf, ser_vars, de_tx, de_recp>>

\* raw_transactions.to_vec() and thread::spawn of the transaction scan
DeSpawnTx ==
    /\ de.pc = "split"
    /\ de' = [de EXCEPT !.pc = "tx_spawned"]
    /\ de_tx' = [DeWorkerIdle EXCEPT !.pc = "loop", !.raw = de.raw_transactions]
    /\ UNCHANGED <<ent, val, outs, buf, res, phase, ser_vars, de_recp>>

\* raw_receipts.to_vec() and thread::spawn of the receipt scan
DeSpawnRecp ==
    /\ de.pc = "tx_spawned"
    /\ de' = [de EXCEPT !.pc = "recp_spawned"]
    /\ de_recp' = [DeWorkerIdle EXCEPT !.pc = "loop", !.raw = de.raw_receipts]
    /\ UNCHANGED <<ent, val, outs, buf, res, phase, ser_vars, de_tx>>

\* one pass through `while pos < raw.len()` of a scan worker, or its end;
\* size_from_slice and deserialize are the item type's
ScanStep(w, size_from_slice(_), deserialize(_)) ==
    IF ~(w.pos < Len(w.raw))
    THEN [w EXCEPT !.pc = "done", !.result = Ok(w.items)]
    ELSE let(SliceFrom(w.raw, w.pos), LAMBDA raw_buf :
         let(size_from_slice(raw_buf), LAMBDA size_of_i_th :
             IF ~IsOk(size_of_i_th)
             THEN [w EXCEPT !.pc = "done", !.result = size_of_i_th]
             \* &raw_buf[..size_of_i_th]
             ELSE IF size_of_i_th.val > Len(raw_buf)
             THEN [w EXCEPT !.pc = "done", !.result = Panic]
             ELSE let(deserialize(Slice(raw_buf, 0, size_of_i_th.val)), LAMBDA item :
                      IF ~IsOk(item)
                      THEN [w EXCEPT !.pc = "done", !.result = item]
                      ELSE [w EXCEPT !.items = Append(@, item.val),
                                     !.pos = @ + size_of_i_th.val])))

\* transaction scan that consumes the region held by Block::deserialize
\* instead of a private copy of it
DeTxStep_drains_region ==
    /\ de_tx.pc = "loop"
    /\ de_tx' = ScanStep(de_tx, Transaction_size_from_slice, Transaction_deserialize)
    /\ de' = [de EXCEPT !.raw_transactions = SliceFrom(de_tx.raw, de_tx'.pos)]
    /\ UNCHANGED <<ent, val, outs, buf, res, phase, ser_vars, de_recp>>

\* transaction scan worker
DeTxStep ==
    /\ de_tx.pc = "loop"
    /\ de_tx' = ScanStep(de_tx, Transaction_size_from_slice, Transaction_deserialize)
    /\ UNCHANGED <<ent, val, outs, buf, res, phase, ser_vars, de, de_recp>>

\* receipt scan worker that reads the same item again when the item does
\* not decode
DeRecpStep_rereads_failed_item ==
    /\ de_recp.pc = "loop"
    /\ LET w == ScanStep(de_recp, Receipt_size_from_slice, Receipt_deserialize)
       IN  de_recp' = IF w.pc = "done" /\ ~IsOk(w.result) /\ w.result # Panic
                      THEN de_recp
                      ELSE w
    /\ UNCHANGED <<ent, val, outs, buf, res, phase, ser_vars, de, de_tx>>

\* receipt scan worker
DeRecpStep ==
    /\ de_recp.pc = "loop"
    /\ de_recp' = ScanStep(de_recp, Receipt_size_from_slice, Receipt_deserialize)
    /\ UNCHANGED <<ent, val, outs, buf, res, phase, ser_vars, de, de_tx>>

\* Block::deserialize that returns the receipt scan's failure when that scan
\* has already failed by the time the transaction scan is joined
DeJoinTx_first_failure ==
    /\ de.pc = "recp_spawned"
    /\ de_tx.pc = "done"
    /\ de_tx' = [de_tx EXCEPT !.pc = "joined"]
    /\ IF de_recp.pc = "done" /\ ~IsOk(de_recp.result)
       THEN /\ res' = de_recp.result
            /\ phase' = "decoded"
            /\ de' = [de EXCEPT !.pc = "returned"]
       ELSE IF IsOk(de_tx.result)
       THEN /\ de' = [de EXCEPT !.pc = "tx_joined", !.transactions = de_tx.result.val]
            /\ UNCHANGED <<res, phase>>
       ELSE /\ res' = de_tx.result
            /\ phase' = "decoded"
            /\ de' = [de EXCEPT !.pc = "returned"]
    /\ UNCHANGED <<ent, val, outs, buf, ser_vars, de_recp>>

\* tx_join_handle.join().unwrap()?: a panicked worker makes unwrap panic, an
\* Err returns from Block::deserialize at once (the receipt handle is dropped)
DeJoinTx ==
    /\ de.pc = "recp_spawned"
    /\ de_tx.pc = "done"
    /\ de_tx' = [de_tx EXCEPT !.pc = "joined"]
    /\ IF IsOk(de_tx.result)
       THEN /\ de' = [de EXCEPT !.pc = "tx_joined", !.transactions = de_tx.result.val]
            /\ UNCHANGED <<res, phase>>
       ELSE /\ res' = de_tx.result
            /\ phase' = "decoded"
            /\ de' = [de EXCEPT !.pc = "returned"]
    /\ UNCHANGED <<ent, val, outs, buf, ser_vars, de_recp>>

\* Block::deserialize that assembles the Block from whatever the receipt scan
\* has decoded so far, without waiting for it to end
DeJoinRecp_takes_items ==
    /\ de.pc = "tx_joined"
    /\ de_recp.pc \in {"loop", "done"}
    /\ de_recp' = [de_recp EXCEPT !.pc = "joined"]
    /\ res' = Ok([header |-> de.blockheader, transactions |-> de.transactions,
                  receipts |-> de_recp.items])
    /\ phase' = "decoded"
    /\ de' = [de EXCEPT !.pc = "returned"]
    /\ UNCHANGED <<ent, val, outs, buf, ser_vars, de_tx>>

\* recp_join_handle.join().unwrap()? and the assembled Block is returned
DeJoinRecp ==
    /\ de.pc = "tx_joined"
    /\ de_recp.pc = "done"
    /\ de_recp' = [de_recp EXCEPT !.pc = "joined"]
    /\ res' = IF IsOk(de_recp.result)
              THEN Ok([header |-> de.blockheader, transactions |-> de.transactions,
                       receipts |-> de_recp.result.val])
              ELSE de_recp.result
    /\ phase' = "decoded"
    /\ de' = [de EXCEPT !.pc = "returned"]
    /\ UNCHANGED <<ent, val, outs, buf, ser_vars, de_tx>>

\* ------------------------------------------- Block decode, one call as a whole
RECURSIVE TxScan(_)
\* the outcome of the transaction scan run alone from worker state w
TxScan(w) ==
    IF w.pc = "done" THEN w.result
    ELSE TxScan(ScanStep(w, Transaction_size_from_slice, Transaction_deserialize))

RECURSIVE RecpScan(_)
\* the outcome of the receipt scan run alone from worker state w
RecpScan(w) ==
    IF w.pc = "done" THEN w.result
    ELSE RecpScan(ScanStep(w, Receipt_size_from_slice, Receipt_deserialize))

\* the scan outcome of a whole region
RegionTx(raw) == TxScan([DeWorkerIdle EXCEPT !.pc = "loop", !.raw = raw])
RegionRecp(raw) == RecpScan([DeWorkerIdle EXCEPT !.pc = "loop", !.raw = raw])

\* Block decode of b with the two scans run one after the other
BlockDecodeSequential(b) ==
    LET blockheader == BlockHeader_deserialize(b)
        buf1 == SliceFrom(b, fmt_blockheader_BASESIZE)
        tx_size == deserialize_u32(buf1, fmt_sizes.TRANSACTION)
        recp_size == deserialize_u32(buf1, fmt_sizes.RECEIPT)
        buf2 == SliceFrom(buf1, fmt_sizes_BASESIZE)
        transactions == RegionTx(Slice(buf2, 0, tx_size))
        receipts == RegionRecp(SliceFrom(buf2, tx_size))
    IN  IF ~IsOk(blockheader) THEN blockheader
        ELSE IF Len(buf1) < fmt_sizes_BASESIZE THEN Err("IncorrectLength")
        ELSE IF Len(buf2) < tx_size + recp_size THEN Err("IncorrectLength")
        ELSE IF ~IsOk(transactions) THEN transactions
        ELSE IF ~IsOk(receipts) THEN receipts
        ELSE Ok([header |-> blockheader.val, transactions |-> transactions.val,
                 receipts |-> receipts.val])

\* --------------------------------------- deprecated Transactions and Blocks
\* impl Serializable for Transactions: each entry is tx_size as 4
\* little-endian bytes and then the Transaction
Transactions_serialize(msg) ==
    Concat([k \in 1..Len(msg.transactions) |->
               LET serialized_tx == Transaction_serialize(msg.transactions[k])
               IN  to_le_bytes(Len(serialized_tx), SizeOfU32) \o serialized_tx])

\* one pass through `while pos < buf.len()` of Transactions::deserialize at
\* pos: the error returned, or the Transaction and the position after it
Transactions_entry(raw, pos) ==
    IF Len(raw) < pos + SizeOfU32 THEN Err("IncorrectLength")
    ELSE LET tx_size == from_le_bytes(Slice(raw, pos, pos + SizeOfU32))
         IN  IF Len(raw) < pos + SizeOfU32 + tx_size THEN Err("IncorrectLength")
             ELSE LET tx == Transaction_deserialize(
                                Slice(raw, pos + SizeOfU32, pos + SizeOfU32 + tx_size))
                  IN  IF ~IsOk(tx) THEN tx
                      ELSE Ok([item |-> tx.val, pos |-> pos + SizeOfU32 + tx_size])

RECURSIVE Transactions_entries(_, _, _)
\* the loop of Transactions::deserialize from pos on
Transactions_entries(raw, pos, transactions) ==
    IF ~(pos < Len(raw)) THEN Ok(transactions)
    ELSE LET entry == Transactions_entry(raw, pos)
         IN  IF ~IsOk(entry) THEN entry
             ELSE Transactions_entries(raw, entry.val.pos,
                                       Append(transactions, entry.val.item))

\* impl Deserializable for Transactions
Transactions_deserialize(raw) ==
    LET transactions == Transactions_entries(raw, 0, <<>>)
    IN  IF ~IsOk(transactions) THEN transactions
        ELSE Ok([transactions |-> transactions.val])

\* impl Serializable for Blocks: each entry is block_size as 4 little-endian
\* bytes and then the Block
Blocks_serialize(msg) ==
    Concat([k \in 1..Len(msg.blocks) |->
               LET block == msg.blocks[k]
                   serialized_block ==
                       Block_concat(
                           BlockHeader_serialize(block.header),
                           Concat([i \in 1..Len(block.transactions) |->
                                      Transaction_serialize(block.transactions[i])]),
                           Concat([i \in 1..Len(block.receipts) |->
                                      Receipt_serialize(block.receipts[i])]))
               IN  to_le_bytes(Len(serialized_block), SizeOfU32) \o serialized_block])

\* one pass through `while pos < buf.len()` of Blocks::deserialize at pos:
\* the error returned, or the Block and the position after it
Blocks_entry(raw, pos) ==
    IF Len(raw) < pos + SizeOfU32 THEN Err("IncorrectLength")
    ELSE LET block_size == from_le_bytes(Slice(raw, pos, pos + SizeOfU32))
         IN  IF Len(raw) < pos + SizeOfU32 + block_size THEN Err("IncorrectLength")
             ELSE LET block == BlockDecodeSequential(
                                   Slice(raw, pos + SizeOfU32, pos + SizeOfU32 + block_size))
                  IN  IF ~IsOk(block) THEN block
                      ELSE Ok([item |-> block.val, pos |-> pos + SizeOfU32 + block_size])

RECURSIVE Blocks_entries(_, _, _)
\* the loop of Blocks::deserialize from pos on
Blocks_entries(raw, pos, blocks) ==
    IF ~(pos < Len(raw)) THEN Ok(blocks)
    ELSE LET entry == Blocks_entry(raw, pos)
         IN  IF ~IsOk(entry) THEN entry
             ELSE Blocks_entries(raw, entry.val.pos, Append(blocks, entry.val.item))

\* impl Deserializable for Blocks
Blocks_deserialize(raw) ==
    LET blocks == Blocks_entries(raw, 0, <<>>)
    IN  IF ~IsOk(blocks) THEN blocks
        ELSE Ok([blocks |-> blocks.val])

\* the two deprecated list wrappers
Wrappers == {"Transactions", "Blocks"}

\* Transactions::serialize(&val) or Blocks::serialize(&val)
WrapperEncode ==
    /\ ent \in Wrappers
    /\ phase = "new"
    /\ LET enc == IF ent = "Transactions" THEN Transactions_serialize(val)
                  ELSE Blocks_serialize(val)
       IN  /\ outs' = <<enc>>
           /\ buf' = enc
    /\ phase' = "encoded"
    /\ UNCHANGED <<ent, val, res, ser_vars, de_vars>>

\* buffers derived from a wrapper's encoding: an entry declaring size zero
\* put in front or at the end, the end cut off, or the first entry's declared
\* size changed
WrapperCorrupted(enc) ==
    {Zeros(SizeOfU32) \o enc, enc \o Zeros(SizeOfU32)}
        \cup {Slice(enc, 0, c) : c \in {c \in {2, SizeOfU32, Len(enc) - 1} : c < Len(enc)}}
        \cup (IF enc = <<>> THEN {}
              ELSE {[enc EXCEPT ![1] = t] :
                       t \in {0, enc[1] - 1, enc[1] + 1} \cap (0..255)})

\* the bytes received for a wrapper are not the ones sent
WrapperCorrupt ==
    /\ ent \in Wrappers
    /\ phase = "encoded"
    /\ buf = outs[1]
    /\ \E b \in WrapperCorrupted(buf) : b # buf /\ buf' = b
    /\ UNCHANGED <<ent, val, outs, res, phase, ser_vars, de_vars>>

\* Transactions::deserialize(&buf) or Blocks::deserialize(&buf)
WrapperDecode ==
    /\ ent \in Wrappers
    /\ phase = "encoded"
    /\ res' = IF ent = "Transactions" THEN Transactions_deserialize(buf)
              ELSE Blocks_deserialize(buf)
    /\ phase' = "decoded"
    /\ UNCHANGED <<ent, val, outs, buf, ser_vars, de_vars>>

\* ------------------------------ Block::try_from (the borsh-backed crate)
\* Block::try_from(val)
TryFrom ==
    /\ ent = "HotStuffBlock"
    /\ phase = "new"
    /\ res' = Block_try_from(val)
    /\ phase' = "decoded"
    /\ UNCHANGED <<ent, val, outs, buf, ser_vars, de_vars>>

\* ---------------------------------------------------------- specification
Next ==
    \/ Encode
    \/ Truncate
    \/ Extend
    \/ Tamper
    \/ TamperTwo
    \/ ReceiptCraft
    \/ Decode
    \/ StatusInto
    \/ StatusByte
    \/ StatusTryFrom
    \/ SizeFieldWrite
    \/ SizeFieldRead
    \/ GenericEncode
    \/ GenericCraft
    \/ GenericCorrupt
    \/ GenericDecode
    \/ WrapperEncode
    \/ WrapperCorrupt
    \/ WrapperDecode
    \/ TryFrom
    \/ SerHeader
    \/ SerSpawnTx
    \/ SerSpawnRecp
    \/ SerTxAlloc
    \/ SerTxWrite
    \/ SerTxReturn
    \/ SerRecpAlloc
    \/ SerRecpWrite
    \/ SerRecpReturn
    \/ SerJoinTx
    \/ SerJoinRecp
    \/ SerReturn
    \/ DeHeader
    \/ DeSizes
    \/ DeSpawnTx
    \/ DeSpawnRecp
    \/ DeTxStep
    \/ DeRecpStep
    \/ DeJoinTx
    \/ DeJoinRecp

Spec == Init /\ [][Next]_vars

\* the steps of the thread that called Block::deserialize, once it is in
DeCaller == DeSizes \/ DeSpawnTx \/ DeSpawnRecp \/ DeJoinTx \/ DeJoinRecp

\* the operating system keeps scheduling every thread that can take a step:
\* the two spawned scan workers and the caller of Block::deserialize
LiveSpec ==
    Spec /\ WF_vars(DeTxStep) /\ WF_vars(DeRecpStep) /\ WF_vars(DeCaller)

\* ==================================================================== claims
\* the received buffer is exactly what encode returned
Untouched == buf = outs[1]

\* C1: every entity decoder is total - on every buffer it returns a value or
\* one of the three error kinds, and never panics
C1_DecodeTotal ==
    (phase = "decoded" /\ ent \in Entities) =>
        \/ res.tag = "Ok"
        \/ res.tag = "Err" /\ res.kind \in ErrorKind

FixedTailEntities ==
    {"Transaction", "Event", "Receipt", "BlockHeader", "CallData",
     "ParamsFromTransaction", "ParamsFromBlockchain",
     "TransactionDataContractDeployment"}

\* C2: for the fixed-prefix-plus-tail entities decode(encode(v)) succeeds and
\* equals v field by field, empty variable fields included
C2_RoundTrip ==
    (phase = "decoded" /\ ent \in FixedTailEntities /\ Untouched) =>
        (res.tag = "Ok" /\ res.val = val)

\* a Receipt with two events and a return value came back from decode
C2_Witness ==
    /\ phase = "decoded"
    /\ ent = "Receipt"
    /\ Untouched
    /\ Len(val.events) = 2
    /\ val.events[2].topic # <<>>
    /\ val.return_value # <<>>
    /\ res.tag = "Ok"

\* C3: Block decode(Block encode(b)) returns the same header, the same
\* transactions and the same receipts in the same order, whatever the two counts
C3_BlockRoundTrip ==
    (phase = "decoded" /\ ent = "Block" /\ Untouched) =>
        /\ res.tag = "Ok"
        /\ res.val.header = val.header
        /\ res.val.transactions = val.transactions
        /\ res.val.receipts = val.receipts

\* a Block with no transaction and two receipts came back from decode
C3_Witness ==
    /\ phase = "decoded"
    /\ ent = "Block"
    /\ Untouched
    /\ Len(val.transactions) = 0
    /\ Len(val.receipts) = 2
    /\ res.tag = "Ok"

\* C4: for a fixed Block every interleaving of the two encode workers, and
\* every repeated encode of the same Block, yields the same byte sequence
C4_EncodeDeterministic ==
    ent = "Block" => \A i, j \in 1..Len(outs) : outs[i] = outs[j]

\* the same Block was encoded twice, the transaction worker ending first in
\* one call and the receipt worker ending first in the other
C4_Witness ==
    /\ ent = "Block"
    /\ Len(outs) = 2
    /\ Len(order) = 2
    /\ order[1] # order[2]
    /\ val.transactions # <<>>
    /\ val.receipts # <<>>

\* C5: whenever the parallel Block encode returns, it returns exactly the 276
\* header bytes, the two 32-bit little-endian buffer lengths, every
\* Transaction encoding in list order and every Receipt encoding in list
\* order, and nothing else
C5_SequentialReference ==
    [][(ent = "Block" /\ outs' # outs) =>
           LET header == BlockHeader_serialize(val.header)
               txs == Concat([k \in 1..Len(val.transactions) |->
                                 Transaction_serialize(val.transactions[k])])
               recps == Concat([k \in 1..Len(val.receipts) |->
                                   Receipt_serialize(val.receipts[k])])
           IN  /\ Len(header) = 276
               /\ outs'[Len(outs')] = header \o to_le_bytes(Len(txs), 4)
                                             \o to_le_bytes(Len(recps), 4)
                                             \o txs \o recps]_vars

\* a Block with two transactions and two receipts has been encoded
C5_Witness ==
    /\ ent = "Block"
    /\ Len(outs) >= 1
    /\ Len(val.transactions) = 2
    /\ Len(val.receipts) = 2

\* C6: decoding an encoding that lost its last byte returns IncorrectLength,
\* for each of the eleven entities
C6_Truncation ==
    (phase = "decoded" /\ ent \in Entities
        /\ buf = Slice(outs[1], 0, Len(outs[1]) - 1)) =>
        (res.tag = "Err" /\ res.kind = "IncorrectLength")

\* a MerkleProof encoding with a non-empty proof lost its last byte and was
\* rejected
C6_Witness ==
    /\ phase = "decoded"
    /\ ent = "MerkleProof"
    /\ val.proof # <<>>
    /\ buf = Slice(outs[1], 0, Len(outs[1]) - 1)
    /\ res.tag = "Err"

\* C7: decoding the empty buffer returns IncorrectLength, for each of the
\* eleven entities
C7_EmptyBuffer ==
    (phase = "decoded" /\ ent \in Entities /\ buf = <<>>) =>
        (res.tag = "Err" /\ res.kind = "IncorrectLength")

\* Block::deserialize was handed the empty buffer and returned an error
C7_Witness ==
    /\ phase = "decoded"
    /\ ent = "Block"
    /\ buf = <<>>
    /\ res.tag = "Err"

\* C8: the 15 status codes map one-to-one onto the 15 listed bytes, in both
\* directions, and every other byte is ReceiptStatusCodeOutOfRange
C8_StatusCodeBijection ==
    LET MappedBytes == {0, 10, 11, 12, 13, 20, 21, 22, 23, 30, 31, 40, 41, 42, 50}
    IN  (ent = "ReceiptStatusCode" /\ phase = "decoded") =>
            /\ outs[1][1] \in MappedBytes
            /\ Untouched => (res.tag = "Ok" /\ res.val = val)
            /\ buf[1] \in MappedBytes =>
                   (res.tag = "Ok" /\ ReceiptStatusCode_into(res.val) = buf[1])
            /\ buf[1] \notin MappedBytes =>
                   (res.tag = "Err" /\ res.kind = "ReceiptStatusCodeOutOfRange")

\* try_from(255) returned an error
C8_Witness ==
    /\ ent = "ReceiptStatusCode"
    /\ phase = "decoded"
    /\ buf = <<255>>
    /\ res.tag = "Err"

\* C9: CallData decode returns IncorrectLength for a buffer shorter than its
\* declared sizes whatever its name bytes are, and StringParseError for a
\* buffer long enough whose method-name bytes are not valid UTF-8
C9_TextValidation ==
    (phase = "decoded" /\ ent = "CallData") =>
        IF Len(buf) < fmt_calldata_BASESIZE
        THEN res.tag = "Err" /\ res.kind = "IncorrectLength"
        ELSE LET method_size == deserialize_u32(buf, fmt_calldata.METHOD_SIZE)
                 args_size == deserialize_u32(buf, fmt_calldata.ARGS_SIZE)
                 name == Slice(buf, fmt_calldata_BASESIZE,
                               fmt_calldata_BASESIZE + method_size)
             IN  IF Len(buf) < fmt_calldata_BASESIZE + method_size + args_size
                 THEN res.tag = "Err" /\ res.kind = "IncorrectLength"
                 ELSE ~from_utf8_valid(name) =>
                          (res.tag = "Err" /\ res.kind = "StringParseError")

\* a CallData buffer of consistent sizes with a corrupted name byte was
\* rejected as StringParseError
C9_Witness ==
    /\ phase = "decoded"
    /\ ent = "CallData"
    /\ Len(buf) = Len(outs[1])
    /\ buf # outs[1]
    /\ res.tag = "Err"
    /\ res.kind = "StringParseError"

\* C10: a Transaction encodes to 204 + len(data) bytes (304 for 100 bytes of
\* data), size_of and size_from_slice agree with that length, and decode of a
\* buffer shorter than 204 + data_size returns IncorrectLength
C10_TransactionSize ==
    (ent = "Transaction" /\ phase # "new") =>
        /\ Len(outs[1]) = 204 + Len(val.data)
        /\ Len(val.data) = 100 => Len(outs[1]) = 304
        /\ Transaction_size_of(val) = Len(outs[1])
        /\ Transaction_size_from_slice(outs[1]) = Ok(Len(outs[1]))
        /\ (phase = "decoded" /\ Len(buf) < 204) =>
               (res.tag = "Err" /\ res.kind = "IncorrectLength")
        /\ (phase = "decoded" /\ Len(buf) >= 204
                /\ Len(buf) < 204 + deserialize_u32(buf, fmt_transaction.DATASIZE)) =>
               (res.tag = "Err" /\ res.kind = "IncorrectLength")

\* the 304-byte encoding of a Transaction with 100 bytes of data was cut to
\* 303 bytes and rejected
C10_Witness ==
    /\ ent = "Transaction"
    /\ phase = "decoded"
    /\ Len(val.data) = 100
    /\ Len(outs[1]) = 304
    /\ Len(buf) = 303
    /\ res.tag = "Err"

\* C11: a BlockHeader encodes to 276 bytes with blockchain_id at (8,0),
\* block_version_number (8,8), timestamp (4,16), prev_block_hash (32,20),
\* this_block_hash (32,52), state_hash (32,84), txs_hash (32,116),
\* receipts_hash (32,148), proposer_public_key (32,180), signature (64,212),
\* integers little-endian; decode reads each field from the same bytes
C11_BlockHeaderLayout ==
    (ent = "BlockHeader" /\ phase # "new") =>
        LET out == outs[1]
            \* the n little-endian bytes of v (v is below 2^31)
            le(v, n) == [i \in 1..n |->
                            IF i <= 4 THEN (v \div (256 ^ (i - 1))) % 256 ELSE 0]
        IN  /\ Len(out) = 276
            /\ SubSeq(out, 1, 8) = le(val.blockchain_id, 8)
            /\ SubSeq(out, 9, 16) = le(val.block_version_number, 8)
            /\ SubSeq(out, 17, 20) = le(val.timestamp, 4)
            /\ SubSeq(out, 21, 52) = val.prev_block_hash
            /\ SubSeq(out, 53, 84) = val.this_block_hash
            /\ SubSeq(out, 85, 116) = val.state_hash
            /\ SubSeq(out, 117, 148) = val.txs_hash
            /\ SubSeq(out, 149, 180) = val.receipts_hash
            /\ SubSeq(out, 181, 212) = val.proposer_public_key
            /\ SubSeq(out, 213, 276) = val.signature
            /\ (phase = "decoded" /\ res.tag = "Ok") =>
                   /\ SubSeq(buf, 1, 8) = le(res.val.blockchain_id, 8)
                   /\ SubSeq(buf, 9, 16) = le(res.val.block_version_number, 8)
                   /\ SubSeq(buf, 17, 20) = le(res.val.timestamp, 4)
                   /\ res.val.prev_block_hash = SubSeq(buf, 21, 52)
                   /\ res.val.this_block_hash = SubSeq(buf, 53, 84)
                   /\ res.val.state_hash = SubSeq(buf, 85, 116)
                   /\ res.val.txs_hash = SubSeq(buf, 117, 148)
                   /\ res.val.receipts_hash = SubSeq(buf, 149, 180)
                   /\ res.val.proposer_public_key = SubSeq(buf, 181, 212)
                   /\ res.val.signature = SubSeq(buf, 213, 276)

\* a BlockHeader with a two-byte blockchain_id and different state and
\* transaction hashes was encoded and decoded
C11_Witness ==
    /\ ent = "BlockHeader"
    /\ phase = "decoded"
    /\ res.tag = "Ok"
    /\ val.blockchain_id >= 256
    /\ val.state_hash # val.txs_hash

\* C12: decode(encode(s)) = s for every StateProofs value, and per item the
\* absent / present distinction survives: (k, None) and (k, Some(empty)) have
\* different encodings and decode back to None and to Some(empty)
C12_StateProofsPresence ==
    (ent = "StateProofs" /\ phase = "decoded" /\ Untouched) =>
        /\ res.tag = "Ok"
        /\ res.val = val
        /\ \A i \in 1..Len(val.items) :
               LET k == val.items[i][1]
                   absent == StateProofItem_serialize(<<k, None>>)
                   empty == StateProofItem_serialize(<<k, Some(<<>>)>>)
               IN  /\ (val.items[i][2] = None) = (res.val.items[i][2] = None)
                   /\ absent # empty
                   /\ StateProofItem_deserialize(absent) = Ok(<<k, None>>)
                   /\ StateProofItem_deserialize(empty) = Ok(<<k, Some(<<>>)>>)

\* a StateProofs value holding an absent item, a present-but-empty item and
\* two proof blobs was encoded and decoded
C12_Witness ==
    /\ ent = "StateProofs"
    /\ phase = "decoded"
    /\ Untouched
    /\ res.tag = "Ok"
    /\ Len(val.items) = 2
    /\ val.items[1][2] = None
    /\ val.items[2][2] = Some(<<>>)
    /\ Len(val.proof) = 2

\* C13: decode(encode(v)) = v for the generic shapes Option<T>, (T1,T2),
\* (T1,T2,T3) and Vec<T> over element types that round-trip, nested in one
\* another, including None, the empty list, a list of empty byte strings and
\* a tuple whose second element is None
C13_GenericRoundTrip ==
    (ent = "Generic" /\ phase = "decoded" /\ Untouched) =>
        (res.tag = "Ok" /\ res.val = val.v)

\* a list of two (bytes, optional bytes) tuples, the first with None as its
\* second element, was encoded and decoded
C13_Witness ==
    /\ ent = "Generic"
    /\ phase = "decoded"
    /\ Untouched
    /\ res.tag = "Ok"
    /\ val.ty.k = "Vec"
    /\ val.ty.of.k = "Tuple2"
    /\ Len(val.v) = 2
    /\ val.v[1][2] = None
    /\ val.v[2][2] # None

\* the fixed-size format tables of the crate
FormatTables ==
    <<fmt_blockheader, fmt_sizes, fmt_transaction,
      fmt_transactiondata_contractdeployment, fmt_event, fmt_receipt,
      fmt_merkleproof, fmt_paramsfromtransaction, fmt_paramsfromblockchain,
      fmt_calldata>>

\* the end offset of field n of table fmt
FieldEnd(fmt, n) == fmt[n][2] + fmt[n][1]

\* the fields of fmt tile [0, base): one starts at 0, each ends where another
\* starts or at base, no two overlap, and base is the sum of the sizes
Contiguous(fmt, base) ==
    /\ \E n \in DOMAIN fmt : fmt[n][2] = 0
    /\ \A n \in DOMAIN fmt :
           \/ FieldEnd(fmt, n) = base
           \/ \E m \in DOMAIN fmt : fmt[m][2] = FieldEnd(fmt, n)
    /\ \A n, m \in DOMAIN fmt :
           n # m => (FieldEnd(fmt, n) <= fmt[m][2] \/ FieldEnd(fmt, m) <= fmt[n][2])
    /\ \A n \in DOMAIN fmt : fmt[n][1] > 0 /\ FieldEnd(fmt, n) <= base
    /\ base = SumSizes(fmt, DOMAIN fmt)

\* C14: every format table is contiguous and gap-free (first offset 0, each
\* next offset = previous offset + size, no overlap, BASESIZE = sum of sizes
\* = end of the last field), BASESIZE is 276 for BlockHeader, 204 for
\* Transaction and 17 for Receipt, and every encoding of an entity with a
\* table is at least as long as its fixed prefix
C14_TablesContiguous ==
    /\ \A i \in DOMAIN FormatTables :
           Contiguous(FormatTables[i], define_format_BASESIZE(FormatTables[i]))
    /\ fmt_blockheader_BASESIZE = 276
    /\ FieldEnd(fmt_blockheader, "SIGNATURE") = 276
    /\ fmt_transaction_BASESIZE = 204
    /\ fmt_receipt_BASESIZE = 17
    /\ FieldEnd(fmt_receipt, "EVENTSSIZE") = 17
    /\ fmt_sizes_BASESIZE = 8
    /\ (ent \in Entities /\ phase = "encoded" /\ Untouched) =>
           Len(buf) >= BaseSize(ent)

\* a Receipt with a return value and events was encoded: its variable part
\* starts exactly where the last fixed field ends
C14_Witness ==
    /\ ent = "Receipt"
    /\ phase = "encoded"
    /\ Untouched
    /\ val.return_value # <<>>
    /\ val.events # <<>>
    /\ Len(buf) > FieldEnd(fmt_receipt, "EVENTSSIZE")
    /\ SubSeq(buf, FieldEnd(fmt_receipt, "EVENTSSIZE") + 1,
              FieldEnd(fmt_receipt, "EVENTSSIZE") + Len(val.return_value))
           = val.return_value

\* the scan worker w stopped at an item whose fixed header is cut short or
\* whose declared total size exceeds the bytes left in its region
StoppedShort(w, size_from_slice(_)) ==
    /\ w.pc \in {"done", "joined"}
    /\ w.pos < Len(w.raw)
    /\ LET raw_buf == SliceFrom(w.raw, w.pos)
           size_of_i_th == size_from_slice(raw_buf)
       IN  \/ size_of_i_th = Err("IncorrectLength")
           \/ (IsOk(size_of_i_th) /\ size_of_i_th.val > Len(raw_buf))

\* C15: when a region scan meets an item whose fixed header is cut short or
\* whose declared total size exceeds the bytes remaining in the region, Block
\* decode returns IncorrectLength
C15_RegionFailFast ==
    (ent = "Block" /\ phase = "decoded") =>
        /\ StoppedShort(de_tx, Transaction_size_from_slice) =>
               res = Err("IncorrectLength")
        /\ (de_tx.pc = "joined" /\ IsOk(de_tx.result) /\ de_recp.pc = "joined"
              /\ StoppedShort(de_recp, Receipt_size_from_slice)) =>
               res = Err("IncorrectLength")

\* a worker that was started and has not been joined yet
Running == {"spawned", "loop", "done"}

\* the header of buf decoded and the two aggregate lengths fit in what follows
SizesValidated ==
    /\ IsOk(BlockHeader_deserialize(buf))
    /\ Len(buf) >= fmt_blockheader_BASESIZE + fmt_sizes_BASESIZE
    /\ LET buf1 == SliceFrom(buf, fmt_blockheader_BASESIZE)
       IN  Len(buf1) - fmt_sizes_BASESIZE >=
               deserialize_u32(buf1, fmt_sizes.TRANSACTION)
                   + deserialize_u32(buf1, fmt_sizes.RECEIPT)

\* C16: in Block encode and in Block decode a worker runs only after the
\* header step (for decode: after the header was decoded and the two aggregate
\* lengths were read and found to fit in the remaining buffer), and the
\* concatenated buffer or the assembled Block is produced only in a step taken
\* after both workers have run to their end
C16_ForkJoinOrdering ==
    /\ [](ent = "Block" =>
            /\ ser_tx.pc \in Running =>
                   /\ ser.pc \in {"tx_spawned", "recp_spawned"}
                   /\ ser.raw_blockheader = BlockHeader_serialize(val.header)
            /\ ser_recp.pc \in Running =>
                   /\ ser.pc \in {"recp_spawned", "tx_joined"}
                   /\ ser.raw_blockheader = BlockHeader_serialize(val.header)
            /\ de_tx.pc \in Running =>
                   /\ de.pc \in {"tx_spawned", "recp_spawned"}
                   /\ SizesValidated
            /\ de_recp.pc \in Running =>
                   /\ de.pc \in {"recp_spawned", "tx_joined", "returned"}
                   /\ SizesValidated)
    /\ [][(ent = "Block" /\ outs' # outs) =>
              /\ ser_tx.pc = "joined"
              /\ ser_tx.i > Len(val.transactions)
              /\ ser_recp.pc = "joined"
              /\ ser_recp.i > Len(val.receipts)]_vars
    /\ [][(ent = "Block" /\ res' # res /\ res'.tag = "Ok") =>
              /\ de_tx.pc = "joined"
              /\ ~(de_tx.pos < Len(de_tx.raw))
              /\ de_recp.pc = "done"
              /\ ~(de_recp.pos < Len(de_recp.raw))]_vars

\* a Block with a transaction and two receipts went through the parallel
\* encode and the parallel decode, both workers of each joined
C16_Witness ==
    /\ ent = "Block"
    /\ phase = "decoded"
    /\ res.tag = "Ok"
    /\ ser_tx.pc = "joined"
    /\ ser_recp.pc = "joined"
    /\ de_tx.pc = "joined"
    /\ de_recp.pc = "joined"
    /\ Len(res.val.transactions) = 1
    /\ Len(res.val.receipts) = 2

\* C17: the outcome of Block decode is a function of the input buffer alone,
\* whatever the interleaving of the two scan workers: it is the outcome of
\* running the two scans one after the other; when both regions are
\* malformed the caller gets one failure and it is the transaction region's
C17_DecodeSchedulingIndependent ==
    (ent = "Block" /\ phase = "decoded") =>
        /\ res = BlockDecodeSequential(buf)
        /\ (de_tx.pc = "joined" /\ ~IsOk(RegionTx(de.raw_transactions))
              /\ ~IsOk(RegionRecp(de.raw_receipts))) =>
               res = RegionTx(de.raw_transactions)

\* both regions of a Block were malformed, the receipt scan had already
\* failed with an out-of-range status code when the transaction scan was
\* joined, and the caller got the transaction region's IncorrectLength
C17_Witness ==
    /\ ent = "Block"
    /\ phase = "decoded"
    /\ de_tx.pc = "joined"
    /\ de_tx.result = Err("IncorrectLength")
    /\ de_recp.pc = "done"
    /\ de_recp.result = Err("ReceiptStatusCodeOutOfRange")
    /\ res = Err("IncorrectLength")

\* C18: a step of one worker of the Block pipeline changes that worker's
\* private state only: the other worker's state and buffer, the input Block,
\* the input bytes, the header bytes and the caller's results stay as they
\* were; an encode worker's buffer holds the encodings of the items of its own
\* list that it has written so far, and a decode worker scans its own region
C18_WorkerIsolation ==
    /\ [][(ent = "Block" /\ ser_tx.pc \in {"spawned", "loop"} /\ ser_tx' # ser_tx) =>
              /\ UNCHANGED <<val, outs, buf, res, phase, ser, ser_recp, de_vars>>
              /\ SubSeq(ser_tx'.return_slice, 1, ser_tx'.pos) =
                     Concat([k \in 1..(ser_tx'.i - 1) |->
                                Transaction_serialize(val.transactions[k])])]_vars
    /\ [][(ent = "Block" /\ ser_recp.pc \in {"spawned", "loop"} /\ ser_recp' # ser_recp) =>
              /\ UNCHANGED <<val, outs, buf, res, phase, ser, ser_tx, de_vars>>
              /\ SubSeq(ser_recp'.return_slice, 1, ser_recp'.pos) =
                     Concat([k \in 1..(ser_recp'.i - 1) |->
                                Receipt_serialize(val.receipts[k])])]_vars
    /\ [][(ent = "Block" /\ de_tx.pc = "loop" /\ de_tx' # de_tx) =>
              /\ UNCHANGED <<val, outs, buf, res, phase, ser_vars, de, de_recp>>
              /\ de_tx'.raw = de.raw_transactions]_vars
    /\ [][(ent = "Block" /\ de_recp.pc = "loop" /\ de_recp' # de_recp) =>
              /\ UNCHANGED <<val, outs, buf, res, phase, ser_vars, de, de_tx>>
              /\ de_recp'.raw = de.raw_receipts]_vars

\* both scan workers of a Block decode are in mid-scan, each with one item
\* decoded and more of its region to go
C18_Witness ==
    /\ ent = "Block"
    /\ de_tx.pc = "loop"
    /\ Len(de_tx.items) = 1
    /\ de_tx.pos < Len(de_tx.raw)
    /\ de_recp.pc = "loop"
    /\ Len(de_recp.items) = 1
    /\ de_recp.pos < Len(de_recp.raw)

\* Block decode of b meets one of its failure cases: the header is too short,
\* the length pair is missing, the rest is shorter than the two aggregate
\* lengths together, or the scan of a region fails on an item
DecodeFails(b) ==
    \/ Len(b) < fmt_blockheader_BASESIZE
    \/ Len(b) < fmt_blockheader_BASESIZE + fmt_sizes_BASESIZE
    \/ LET buf1 == SliceFrom(b, fmt_blockheader_BASESIZE)
           tx_size == deserialize_u32(buf1, fmt_sizes.TRANSACTION)
           recp_size == deserialize_u32(buf1, fmt_sizes.RECEIPT)
           buf2 == SliceFrom(buf1, fmt_sizes_BASESIZE)
       IN  \/ Len(buf2) < tx_size + recp_size
           \/ ~IsOk(RegionTx(Slice(buf2, 0, tx_size)))
           \/ ~IsOk(RegionRecp(SliceFrom(buf2, tx_size)))

\* a Block was returned although a failure case was met
PartialBlock ==
    ent = "Block" /\ phase = "decoded" /\ DecodeFails(buf) /\ res.tag = "Ok"

\* C19: when Block decode meets one of its failure cases the call returns an
\* error, and no Block - in particular no Block made of the items decoded
\* before the failure or of one list only
C19_NoPartialResults ==
    (ent = "Block" /\ phase = "decoded" /\ DecodeFails(buf)) =>
        (res.tag = "Err" /\ ~PartialBlock)

\* the element types of a tuple type
ElementTypes(T) == IF T.k = "Tuple2" THEN <<T.t1, T.t2>> ELSE <<T.t1, T.t2, T.t3>>

\* the i-th 32-bit little-endian length prefix of b
Prefix(b, i) ==
    b[4 * i - 3] + 256 * b[4 * i - 2] + 65536 * b[4 * i - 1] + 16777216 * b[4 * i]

RECURSIVE PrefixSum(_, _)
\* the sum of the first i length prefixes of b
PrefixSum(b, i) == IF i = 0 THEN 0 ELSE Prefix(b, i) + PrefixSum(b, i - 1)

\* the bytes of b that its prefixes give to element i of an n-tuple
Part(b, n, i) ==
    SubSeq(b, 4 * n + PrefixSum(b, i - 1) + 1, 4 * n + PrefixSum(b, i))

\* C20: decoding an N-tuple (N = 2, 3) returns IncorrectLength when the
\* buffer has fewer than 4*N bytes, and when the bytes after the N length
\* prefixes are fewer or more than the declared lengths add up to; otherwise
\* it splits the rest at the declared lengths and returns the tuple of the
\* element decodes, or the error of the first element that fails
C20_TupleDecodeStrict ==
    (ent = "Generic" /\ phase = "decoded" /\ val.ty.k \in {"Tuple2", "Tuple3"}) =>
        LET Ts == ElementTypes(val.ty)
            n == Len(Ts)
            d(i) == T_deserialize(Ts[i], Part(buf, n, i))
            failed == {i \in 1..n : ~IsOk(d(i))}
        IN  IF Len(buf) < 4 * n THEN res = Err("IncorrectLength")
            ELSE IF Len(buf) - 4 * n # PrefixSum(buf, n) THEN res = Err("IncorrectLength")
            ELSE IF failed # {}
            THEN res = d(CHOOSE i \in failed : \A j \in failed : i <= j)
            ELSE res = Ok([i \in 1..n |-> d(i).val])

\* a pair whose two parts are both rejected by their decoders, with matching
\* length prefixes, was decoded: the first element's StringParseError came
\* back, not the second element's IncorrectLength
C20_Witness ==
    /\ ent = "Generic"
    /\ phase = "decoded"
    /\ val.ty.k = "Tuple2"
    /\ val.ty.t1.k = "CallData"
    /\ Len(buf) >= 8
    /\ Len(buf) - 8 = PrefixSum(buf, 2)
    /\ Prefix(buf, 2) = 0
    /\ T_deserialize(val.ty.t2, Part(buf, 2, 2)) = Err("IncorrectLength")
    /\ res = Err("StringParseError")

\* C21: Option<T> encodes None as the byte 0 and Some(x) as the byte 1
\* followed by T's encoding of x; decoding the empty buffer is
\* IncorrectLength; a buffer with tag 0 decodes to None whatever follows the
\* tag; a buffer with tag 1 decodes to Some of T's decode of every byte after
\* the tag, and an error of T's decoder comes back unchanged
C21_OptionCodec ==
    (ent = "Generic" /\ val.ty.k = "Option") =>
        /\ phase # "new" =>
               outs[1] = IF val.v = None THEN <<0>>
                         ELSE <<1>> \o T_serialize(val.ty.of, val.v[1])
        /\ phase = "decoded" =>
               IF Len(buf) = 0 THEN res = Err("IncorrectLength")
               ELSE IF buf[1] = 0 THEN res = Ok(None)
               ELSE IF buf[1] = 1
               THEN LET inner == T_deserialize(val.ty.of, Tail(buf))
                    IN  IF IsOk(inner) THEN res = Ok(<<inner.val>>) ELSE res = inner
               ELSE TRUE

\* an Option<CallData> buffer with tag 1 whose name bytes are not UTF-8 was
\* decoded, and the CallData decoder's StringParseError came back
C21_Witness ==
    /\ ent = "Generic"
    /\ phase = "decoded"
    /\ val.ty.k = "Option"
    /\ val.ty.of.k = "CallData"
    /\ Len(buf) > 0
    /\ buf[1] = 1
    /\ res = Err("StringParseError")

\* the 32-bit little-endian integer at byte offset off of b
U32At(b, off) == from_le_bytes(SubSeq(b, off + 1, off + 4))

RECURSIVE DeclaredSum(_, _)
\* the sum of the first i size entries of a Vec<T> buffer b
DeclaredSum(b, i) == IF i = 0 THEN 0 ELSE U32At(b, 4 * i) + DeclaredSum(b, i - 1)

\* the i-th declared byte span of the data region of a Vec<T> buffer b
Span(b, i) ==
    LET data == 4 + 4 * U32At(b, 0)
    IN  SubSeq(b, data + DeclaredSum(b, i - 1) + 1, data + DeclaredSum(b, i))

\* C22: Vec<T> encodes a 32-bit count of the elements, one 32-bit entry per
\* element holding the length of that element's encoding, and the element
\* encodings in order; decode returns IncorrectLength when fewer than 4 bytes
\* are given, when fewer than 4*count bytes follow the count, and when the
\* running sum of the declared sizes exceeds the data region at an element
\* (the elements before it having decoded); when every span fits it returns
\* exactly count elements, the i-th decoded from the i-th declared span, or
\* the error of the first element whose decoder fails
C22_VecCodec ==
    (ent = "Generic" /\ val.ty.k = "Vec") =>
        /\ phase # "new" =>
               LET enc == [i \in 1..Len(val.v) |-> T_serialize(val.ty.of, val.v[i])]
               IN  outs[1] = to_le_bytes(Len(val.v), 4)
                                 \o Concat([i \in 1..Len(val.v) |-> to_le_bytes(Len(enc[i]), 4)])
                                 \o Concat(enc)
        /\ phase = "decoded" =>
               IF Len(buf) < 4 THEN res = Err("IncorrectLength")
               ELSE IF Len(buf) - 4 < 4 * U32At(buf, 0) THEN res = Err("IncorrectLength")
               ELSE LET count == U32At(buf, 0)
                        room == Len(buf) - 4 - 4 * count
                        d(i) == T_deserialize(val.ty.of, Span(buf, i))
                        stops == {i \in 1..count :
                                     \/ DeclaredSum(buf, i) > room
                                     \/ ~IsOk(d(i))}
                        first == CHOOSE i \in stops : \A j \in stops : i <= j
                    IN  IF stops = {}
                        THEN res = Ok([i \in 1..count |-> d(i).val])
                        ELSE IF DeclaredSum(buf, first) > room
                        THEN res = Err("IncorrectLength")
                        ELSE res = d(first)

\* a list of two transactions whose second size entry was raised beyond the
\* data region was decoded: the first span fits, the second does not
C22_Witness ==
    /\ ent = "Generic"
    /\ phase = "decoded"
    /\ val.ty.k = "Vec"
    /\ val.ty.of.k = "Transaction"
    /\ Len(buf) = Len(outs[1])
    /\ Len(buf) >= 12
    /\ U32At(buf, 0) = 2
    /\ DeclaredSum(buf, 1) = 204
    /\ DeclaredSum(buf, 2) > Len(buf) - 12
    /\ res = Err("IncorrectLength")

\* C25: decode(encode(p)) = p for every MerkleProof p, with total_leaves_count
\* and every leaf index any machine word, any numbers of leaf indices and of
\* leaf hashes, and any proof bytes: root_hash, total_leaves_count, the leaf
\* indices, the leaf hashes and the proof all come back unchanged
C25_MerkleProofRoundTrip ==
    (ent = "MerkleProof" /\ phase = "decoded" /\ Untouched) =>
        (res.tag = "Ok" /\ res.val = val)

\* the 32-bit size field of table entry f in the encoding enc
SizeField(enc, f) == deserialize_u32(enc, f)

\* C23: in every encoding each 32-bit size field holds the byte length of the
\* payload it describes, for every payload length: Transaction data_size,
\* Event topic_size and value_size, Receipt return_value_size and events_size,
\* the three MerkleProof sizes, and the two list byte lengths of a Block
C23_SizeFieldsMatch ==
    phase # "new" =>
        /\ ent = "Transaction" =>
               SizeField(outs[1], fmt_transaction.DATASIZE) = Len(val.data)
        /\ ent = "Event" =>
               /\ SizeField(outs[1], fmt_event.TOPICSIZE) = Len(val.topic)
               /\ SizeField(outs[1], fmt_event.VALUESIZE) = Len(val.value)
        /\ ent = "Receipt" =>
               /\ SizeField(outs[1], fmt_receipt.RETURNVALSIZE) = Len(val.return_value)
               /\ SizeField(outs[1], fmt_receipt.EVENTSSIZE) =
                      Len(Concat([k \in 1..Len(val.events) |->
                                     Event_serialize(val.events[k])]))
        /\ ent = "MerkleProof" =>
               /\ SizeField(outs[1], fmt_merkleproof.LEAFINDSIZE) = 4 * Len(val.leaf_indices)
               /\ SizeField(outs[1], fmt_merkleproof.LEAFHASHSIZE) = 32 * Len(val.leaf_hashes)
               /\ SizeField(outs[1], fmt_merkleproof.PROOFSIZE) = Len(val.proof)
        /\ ent = "Block" =>
               /\ SizeField(SubSeq(outs[1], 277, 284), fmt_sizes.TRANSACTION) =
                      Len(Concat([k \in 1..Len(val.transactions) |->
                                     Transaction_serialize(val.transactions[k])]))
               /\ SizeField(SubSeq(outs[1], 277, 284), fmt_sizes.RECEIPT) =
                      Len(Concat([k \in 1..Len(val.receipts) |->
                                     Receipt_serialize(val.receipts[k])]))
        /\ ent = "PayloadLength" =>
               as_usize(SizeField(outs[1], <<4, 0>>)) = val

\* the bytes that are status codes
MappedStatusBytes == {0, 10, 11, 12, 13, 20, 21, 22, 23, 30, 31, 40, 41, 42, 50}

\* b is the encoding sent, but for the status byte of its first receipt
OnlyFirstReceiptStatusDiffers(b) ==
    /\ Len(b) = Len(outs[1])
    /\ val.receipts # <<>>
    /\ LET at == fmt_blockheader_BASESIZE + fmt_sizes_BASESIZE
                     + SizeField(SubSeq(outs[1], 277, 284), fmt_sizes.TRANSACTION) + 1
       IN  /\ b[at] # outs[1][at]
           /\ \A i \in 1..Len(b) : i # at => b[i] = outs[1][i]

\* C24: Receipt decode returns IncorrectLength for a buffer shorter than 17
\* bytes whatever its first byte, and ReceiptStatusCodeOutOfRange for every
\* buffer of 17 bytes or more whose byte 0 is not a status code, also when the
\* declared return_value_size + events_size exceed the buffer; a Block that
\* is well-formed but for such a status byte in a receipt decodes to
\* ReceiptStatusCodeOutOfRange
C24_StatusBeforeTail ==
    /\ (ent = "Receipt" /\ phase = "decoded") =>
           /\ Len(buf) < 17 => res = Err("IncorrectLength")
           /\ (Len(buf) >= 17 /\ buf[1] \notin MappedStatusBytes) =>
                  res = Err("ReceiptStatusCodeOutOfRange")
    /\ (ent = "Block" /\ phase = "decoded" /\ OnlyFirstReceiptStatusDiffers(buf)
          /\ buf[fmt_blockheader_BASESIZE + fmt_sizes_BASESIZE
                   + SizeField(SubSeq(outs[1], 277, 284), fmt_sizes.TRANSACTION) + 1]
                 \notin MappedStatusBytes) =>
           res = Err("ReceiptStatusCodeOutOfRange")

\* a Receipt buffer of 17 bytes or more with status byte 255 and a declared
\* return_value_size beyond its end was decoded
C24_Witness ==
    /\ ent = "Receipt"
    /\ phase = "decoded"
    /\ Len(buf) >= 17
    /\ buf[1] = 255
    /\ 17 + SizeField(buf, fmt_receipt.RETURNVALSIZE)
          + SizeField(buf, fmt_receipt.EVENTSSIZE) > Len(buf)
    /\ res = Err("ReceiptStatusCodeOutOfRange")

\* the scans that run inside one decode call advance: at every position of
\* the received buffer an Event takes 8 bytes or more and a wrapper entry 4
\* bytes or more, and a MerkleProof that decodes has one leaf index per 4
\* bytes and one leaf hash per 32 bytes of its declared regions
InCallScansAdvance ==
    /\ (ent = "Receipt" /\ phase = "decoded") =>
           \A pos \in 0..(Len(buf) - 1) :
               LET size == Event_size_from_slice(SliceFrom(buf, pos))
               IN  IsOk(size) => size.val >= 8
    /\ (ent = "Transactions" /\ phase = "decoded") =>
           \A pos \in 0..(Len(buf) - 1) :
               LET entry == Transactions_entry(buf, pos)
               IN  IsOk(entry) => entry.val.pos >= pos + 4
    /\ (ent = "Blocks" /\ phase = "decoded") =>
           \A pos \in 0..(Len(buf) - 1) :
               LET entry == Blocks_entry(buf, pos)
               IN  IsOk(entry) => entry.val.pos >= pos + 4
    /\ (ent = "MerkleProof" /\ phase = "decoded" /\ IsOk(res)) =>
           /\ 4 * Len(res.val.leaf_indices) = SizeField(buf, fmt_merkleproof.LEAFINDSIZE)
           /\ 32 * Len(res.val.leaf_hashes) = SizeField(buf, fmt_merkleproof.LEAFHASHSIZE)
    /\ (ent \in Entities \cup Wrappers \cup {"Generic"} /\ phase = "decoded") =>
           res.tag \in {"Ok", "Err", "Panic"}

\* a pass of a Block scan worker ends the scan or moves the position on by
\* the item's fixed prefix or more
WorkerScansAdvance ==
    /\ (de_tx.pc = "loop" /\ de_tx' # de_tx /\ de_tx'.pc = "loop") =>
           de_tx'.pos >= de_tx.pos + 204
    /\ (de_recp.pc = "loop" /\ de_recp' # de_recp /\ de_recp'.pc = "loop") =>
           de_recp'.pos >= de_recp.pos + 17

\* C26: every decode call terminates: every pass of a scan returns or moves
\* its position on by the item's fixed header size or more (204 for a
\* transaction, 17 for a receipt, 8 for an event, 4 and 32 for leaf indices
\* and leaf hashes, 4 for a wrapper entry), a Block decode that was entered
\* returns, and both Block scan workers finish
C26_DecodeTerminates ==
    /\ []InCallScansAdvance
    /\ [][WorkerScansAdvance]_vars
    /\ <>[](/\ de.pc \in {"idle", "returned"}
            /\ de_tx.pc \in {"idle", "done", "joined"}
            /\ de_recp.pc \in {"idle", "done", "joined"})

\* Block decode returned after both workers scanned two items each, among
\* them a transaction and a receipt that declare payloads of size zero
C26_Witness ==
    /\ ent = "Block"
    /\ de.pc = "returned"
    /\ de_tx.pc = "joined"
    /\ de_recp.pc = "joined"
    /\ Len(de_tx.items) = 2
    /\ Len(de_recp.items) = 2
    /\ de_tx.items[1].data = <<>>
    /\ de_recp.items[1].return_value = <<>>
    /\ de_recp.items[1].events = <<>>

\* a worker thread that is not running: never spawned, or its closure returned
Terminated(w) == w.pc \in {"idle", "done", "joined"}

\* C27: when Block encode or Block decode has returned to the caller, with a
\* value or with an error (the failure of the transaction scan included),
\* both of its workers have terminated
C27_NoWorkerOutlivesCall ==
    /\ (ent = "Block" /\ ser.pc = "idle") => (Terminated(ser_tx) /\ Terminated(ser_recp))
    /\ (ent = "Block" /\ de.pc = "returned") => (Terminated(de_tx) /\ Terminated(de_recp))

\* C28: the declared region lengths bound what is decoded: the events of a
\* Receipt that decodes are the items of the events_size bytes after
\* return_value (their encoded sizes sum to events_size), and the receipts of
\* a Block that decodes are the items of the declared receipt-list length
\* after the transaction region; bytes past a declared region are not
\* decoded as further items
C28_RegionsBoundItems ==
    /\ (ent = "Receipt" /\ phase = "decoded" /\ IsOk(res)) =>
           SumEventSizes(res.val.events) = SizeField(buf, fmt_receipt.EVENTSSIZE)
    /\ (ent = "Block" /\ phase = "decoded" /\ IsOk(res)) =>
           /\ SumTransactionSizes(res.val.transactions)
                  = SizeField(SliceFrom(buf, fmt_blockheader_BASESIZE), fmt_sizes.TRANSACTION)
           /\ SumReceiptSizes(res.val.receipts)
                  = SizeField(SliceFrom(buf, fmt_blockheader_BASESIZE), fmt_sizes.RECEIPT)

\* C29: Option<T> decode rejects no tag: every tag byte other than 0 (2..255
\* as well as 1) means a present value, decoded by T from the bytes after the
\* tag, so buffers that differ only in a non-zero tag byte decode alike;
\* encode only emits the tags 0 and 1
C29_OptionTagNeverRejected ==
    (ent = "Generic" /\ val.ty.k = "Option") =>
        /\ phase # "new" => outs[1][1] \in {0, 1}
        /\ (phase = "decoded" /\ Len(buf) > 0 /\ buf[1] # 0) =>
               /\ LET inner == T_deserialize(val.ty.of, Tail(buf))
                  IN  res = IF IsOk(inner) THEN Ok(<<inner.val>>) ELSE inner
               /\ \A tag \in {1, 2, 128, 255} :
                      T_deserialize(val.ty, <<tag>> \o Tail(buf)) = res

\* an Option<T> buffer whose tag byte was changed from 1 to 255 decoded to the
\* value that was sent
C29_Witness ==
    /\ ent = "Generic"
    /\ phase = "decoded"
    /\ val.ty.k = "Option"
    /\ val.v # None
    /\ buf = <<255>> \o Tail(outs[1])
    /\ res = Ok(val.v)

\* the five header slots of data have the lengths try_from asks for
HeaderSlotsFit(data) ==
    /\ Len(data[1]) = 8
    /\ Len(data[2]) = 4
    /\ \A i \in 3..5 : Len(data[i]) = 32

\* C30: Block::try_from rejects a consensus-layer block of fewer than 5 data
\* slots with WrongNumberOfSlots; when slots 0-4 have the right lengths it
\* rejects an odd number of further slots with WrongNumberOfSlots; a Block it
\* returns has as many transactions as receipts, each half the number of
\* slots past the first five, the transactions decoded from the first half
\* and the receipts from the second half, in slot order
C30_TryFromSlots ==
    (ent = "HotStuffBlock" /\ phase = "decoded") =>
        LET data == val.data
            further == Len(data) - 5
            half == further \div 2
        IN  /\ Len(data) < 5 => res = Err("WrongNumberOfSlots")
            /\ (Len(data) >= 5 /\ HeaderSlotsFit(data) /\ further % 2 = 1) =>
                   res = Err("WrongNumberOfSlots")
            /\ IsOk(res) =>
                   /\ Len(res.val.transactions) = Len(res.val.receipts)
                   /\ 2 * Len(res.val.transactions) = further
                   /\ \A i \in 1..half :
                          /\ Ok(res.val.transactions[i])
                                 = Borsh_Transaction_deserialize(data[5 + i])
                          /\ Ok(res.val.receipts[i])
                                 = Borsh_Receipt_deserialize(data[5 + half + i])

\* a consensus-layer block of nine slots was converted to a Block of two
\* different transactions and two different receipts
C30_Witness ==
    /\ ent = "HotStuffBlock"
    /\ phase = "decoded"
    /\ Len(val.data) = 9
    /\ IsOk(res)
    /\ Len(res.val.transactions) = 2
    /\ res.val.transactions[1] # res.val.transactions[2]
    /\ Len(res.val.receipts) = 2
    /\ res.val.receipts[1] # res.val.receipts[2]

====
